---- MODULE Spec2Model ----
(***************************************************************************)
(* Scrapient: the document-to-knowledge-graph pipeline.                    *)
(*   - parseKGResponse / generateKG          (services/kg/service)         *)
(*   - generateMermaidCode and its fallback  (services/kg/mermaid)         *)
(*   - generateFallbackCypher                (services/kg/cypher)          *)
(*   - LLMService.parseAnalysisResponse      (services/llm/LLMService)     *)
(*   - the /api/kg/generate stream handler   (api/llm, createKGHandlers)   *)
(*                                                                         *)
(* Conventions.  A JavaScript value is a record [tag, str, num]; a string  *)
(* is a sequence of atoms (characters, or chunks that the code treats as a *)
(* unit); a number is an integer count of tenths (5 is 0.5, 10 is 1.0).    *)
(***************************************************************************)
EXTENDS Integers, Sequences, FiniteSets, TLC

----------------------------------------------------------------------------
(* Bounds of the model.                                                    *)

\* longest engine response, in tokens
MaxToks == 3
\* most entities in a decoded response or a graph
MaxEntities == 2
\* most relationships in a decoded response or a graph
MaxRels == 2

----------------------------------------------------------------------------
(* JavaScript values.                                                      *)

Undefined == [tag |-> "undefined", str |-> <<>>, num |-> 0]
Str(s) == [tag |-> "string", str |-> s, num |-> 0]
Num(n) == [tag |-> "number", str |-> <<>>, num |-> n]

\* ToBoolean: undefined, "" and 0 are falsy
Truthy(v) ==
  \/ v.tag = "string" /\ v.str # <<>>
  \/ v.tag = "number" /\ v.num # 0

\* a || b
Or(a, b) == IF Truthy(a) THEN a ELSE b

IsString(v) == v.tag = "string"

\* an object-valued `properties` member: only its `description` key is read
NoProps == [tag |-> "undefined", description |-> Undefined]
Props(d) == [tag |-> "object", description |-> d]

\* properties || {}
PropsOrEmpty(p) == IF p.tag = "object" THEN p ELSE Props(Undefined)

\* properties?.description
PropsDescription(p) == IF p.tag = "object" THEN p.description ELSE Undefined

\* an array-valued member: undefined, an array, or some other value
NoArray == [tag |-> "undefined", items |-> <<>>]
NotAnArray == [tag |-> "other", items |-> <<>>]
Arr(items) == [tag |-> "array", items |-> items]

\* Array.isArray
IsArray(a) == a.tag = "array"

\* themes || []   (an array, even an empty one, is truthy)
ArrOrEmpty(a) == IF a.tag = "undefined" THEN Arr(<<>>) ELSE a

SeqsUpTo(S, n) == UNION {[1..k -> S] : k \in 0..n}

Range(s) == {s[i] : i \in DOMAIN s}

----------------------------------------------------------------------------
(* Response text.  A response is a sequence of tokens:                     *)
(*   "p"  a run of prose               "w"  white space                    *)
(*   "{"  "}"  braces                  "m"  the member list of `doc`       *)
(* together with `doc`, the object that the member list "m" denotes.       *)

Tokens == {"p", "w", "{", "}", "m"}

\* the object decoded from "{}": every member reads as undefined
EmptyDoc ==
  [entities |-> NoArray, relationships |-> NoArray,
   summary |-> Undefined, themes |-> NoArray]

\* a decoded object with the two array members and nothing else
Doc(entities, relationships) ==
  [entities |-> entities, relationships |-> relationships,
   summary |-> Undefined, themes |-> NoArray]

Positions(toks, t) == {i \in DOMAIN toks : toks[i] = t}

Min(S) == CHOOSE x \in S : \A y \in S : x <= y
Max(S) == CHOOSE x \in S : \A y \in S : x >= y

\* response.match(/\{[\s\S]*\}/): from the first "{" to the last "}"
HasJsonMatch(toks) ==
  /\ Positions(toks, "{") # {}
  /\ Positions(toks, "}") # {}
  /\ Min(Positions(toks, "{")) < Max(Positions(toks, "}"))

JsonMatch(toks) ==
  SubSeq(toks, Min(Positions(toks, "{")), Max(Positions(toks, "}")))

\* white space between JSON tokens is insignificant
RECURSIVE StripSpace(_)
StripSpace(toks) ==
  IF toks = <<>> THEN <<>>
  ELSE IF Head(toks) = "w" THEN StripSpace(Tail(toks))
  ELSE <<Head(toks)>> \o StripSpace(Tail(toks))

\* JSON.parse succeeds on an object literal and throws on anything else
JsonDecodes(span) == StripSpace(span) \in {<<"{", "m", "}">>, <<"{", "}">>}

\* the decoded object: `doc` when the literal has members, else the empty object
JsonParse(span, doc, emptyObject) == IF "m" \in Range(span) THEN doc ELSE emptyObject

\* String.prototype.trim().length === 0
IsBlank(toks) == \A i \in DOMAIN toks : toks[i] = "w"

----------------------------------------------------------------------------
(* parseKGResponse (services/kg/service).                                  *)

\* a graph, or null
NullData ==
  [isNull |-> TRUE, entities |-> <<>>, relationships |-> <<>>,
   summary |-> Undefined, themes |-> NoArray]

\* Math.random().toString(36).substr(2, 9): the n-th suffix drawn
RandomSuffix(n) == ToString(n)

\* `entity_${...}` and `rel_${...}`
GeneratedEntityId(r) == Str(<<"entity_", RandomSuffix(r)>>)
GeneratedRelId(r) == Str(<<"rel_", RandomSuffix(r)>>)

ConvertEntity(entity, r) ==
  [id |-> Or(entity.id, GeneratedEntityId(r)),
   label |-> Or(Or(entity.label, entity.name), Str(<<"Unknown">>)),
   type |-> Or(entity.type, Str(<<"other">>)),
   properties |-> PropsOrEmpty(entity.properties),
   description |-> Or(PropsDescription(entity.properties), entity.description),
   importance |-> Or(entity.importance, Num(5))]

ConvertRelationship(rel, r) ==
  [id |-> Or(rel.id, GeneratedRelId(r)),
   source |-> rel.source,
   target |-> rel.target,
   type |-> Or(Or(rel.type, rel.relationship), Str(<<"related_to">>)),
   properties |-> PropsOrEmpty(rel.properties),
   weight |-> Or(rel.weight, Num(5)),
   description |-> Or(PropsDescription(rel.properties), rel.description)]

\* the validation of lines 235-243: both members must be arrays
HasRequiredFields(parsed) ==
  /\ IsArray(parsed.entities)
  /\ IsArray(parsed.relationships)

ConvertParsed(parsed, rnd) ==
  [isNull |-> FALSE,
   entities |->
     [i \in DOMAIN parsed.entities.items |->
        ConvertEntity(parsed.entities.items[i], rnd.e[i])],
   relationships |->
     [i \in DOMAIN parsed.relationships.items |->
        ConvertRelationship(parsed.relationships.items[i], rnd.r[i])],
   summary |-> Or(parsed.summary, Str(<<>>)),
   themes |-> ArrOrEmpty(parsed.themes)]

\* parseKGResponse, had it returned an empty graph where no JSON is found
parseKGResponse_EmptyOnNoMatch(response, rnd) ==
  IF ~HasJsonMatch(response.toks) THEN ConvertParsed(Doc(Arr(<<>>), Arr(<<>>)), rnd)
  ELSE IF ~JsonDecodes(JsonMatch(response.toks)) THEN NullData
  ELSE LET parsed == JsonParse(JsonMatch(response.toks), response.doc, EmptyDoc)
       IN IF ~HasRequiredFields(parsed) THEN NullData
          ELSE ConvertParsed(parsed, rnd)

\* rnd.e[i], rnd.r[i]: the random suffix drawn for the i-th entity / relationship
parseKGResponse(response, rnd) ==
  IF ~HasJsonMatch(response.toks) THEN NullData
  ELSE IF ~JsonDecodes(JsonMatch(response.toks)) THEN NullData
  ELSE LET parsed == JsonParse(JsonMatch(response.toks), response.doc, EmptyDoc)
       IN IF ~HasRequiredFields(parsed) THEN NullData
          ELSE ConvertParsed(parsed, rnd)

----------------------------------------------------------------------------
(* generateMermaidCode (services/kg/mermaid).                              *)

DefaultMaxNodes == 50
DefaultMaxEdges == 100
DefaultMermaidConfig == [maxNodes |-> DefaultMaxNodes, maxEdges |-> DefaultMaxEdges]

\* the longest label kept whole by sanitizeLabel
LabelLimit == 30
\* the number of entities the fallback diagram shows
FallbackEntityLimit == 10

\* atoms outside [a-zA-Z0-9]
NonAlnumAtoms == {"-", "_", " ", ".", "'", "\"", "(", ")", "{", "}"}
QuoteAtoms == {"'", "\""}

\* id.replace(/[^a-zA-Z0-9]/g, '_'); chunks such as "entity_" keep their shape
sanitizeId(id) ==
  [i \in DOMAIN id |-> IF id[i] \in NonAlnumAtoms THEN "_" ELSE id[i]]

IsNotQuote(c) == c \notin QuoteAtoms

RECURSIVE TrimLeft(_)
TrimLeft(s) ==
  IF s # <<>> /\ Head(s) = " " THEN TrimLeft(Tail(s)) ELSE s

RECURSIVE TrimRight(_)
TrimRight(s) ==
  IF s # <<>> /\ s[Len(s)] = " " THEN TrimRight(SubSeq(s, 1, Len(s) - 1)) ELSE s

Trim(s) == TrimRight(TrimLeft(s))

\* label.replace(/['"]/g, '').trim(), cut to 30 characters plus '...'
sanitizeLabel(label) ==
  LET cleaned == Trim(SelectSeq(label, IsNotQuote))
  IN IF Len(cleaned) > LabelLimit
       THEN SubSeq(cleaned, 1, LabelLimit) \o <<"...">>
       ELSE cleaned

\* `:::${entity.type || 'other'}`
getNodeStyle(entity) == Or(entity.type, Str(<<"other">>))

getArrowStyle(weight) ==
  IF weight.num >= 8 THEN "===>"
  ELSE IF weight.num >= 5 THEN "-->"
  ELSE "-.->"

\* (x || 0) of a sort comparator
NumOrZero(v) == IF v.tag = "number" THEN v.num ELSE 0

ImportanceKey(e) == NumOrZero(e.importance)
WeightKey(r) == NumOrZero(r.weight)

ImportanceKeys(s) == [i \in 1..Len(s) |-> ImportanceKey(s[i])]
WeightKeys(s) == [i \in 1..Len(s) |-> WeightKey(s[i])]

\* Array.prototype.sort with comparator key(b) - key(a): stable, descending
SortDescending(s, key) ==
  LET n == Len(s)
      rank(i) ==
        1 + Cardinality({j \in 1..n :
              \/ key[j] > key[i]
              \/ key[j] = key[i] /\ j < i})
  IN [p \in 1..n |-> s[CHOOSE i \in 1..n : rank(i) = p]]

\* slice(0, n)
Slice(s, n) == SubSeq(s, 1, IF n < Len(s) THEN n ELSE Len(s))

NoDiagram == [path |-> "none", nodes |-> <<>>, edges |-> <<>>]

\* lines 18-20: kgData.entities is sorted in place, then sliced
SortedEntities(kgData) == SortDescending(kgData.entities, ImportanceKeys(kgData.entities))

\* lines 18-20, had the sort by importance been left out
LimitedEntities_Unsorted(kgData, config) == Slice(kgData.entities, config.maxNodes)

LimitedEntities(kgData, config) == Slice(SortedEntities(kgData), config.maxNodes)

\* lines 22-28, had the filter on the selected entities been left out
LimitedRelationships_NoFilter(kgData, config) ==
  Slice(SortDescending(kgData.relationships, WeightKeys(kgData.relationships)), config.maxEdges)

\* lines 22-28
LimitedRelationships(kgData, config) ==
  LET entityIds == {e.id : e \in Range(LimitedEntities(kgData, config))}
      Selected(rel) == rel.source \in entityIds /\ rel.target \in entityIds
      kept == SelectSeq(kgData.relationships, Selected)
  IN Slice(SortDescending(kept, WeightKeys(kept)), config.maxEdges)

\* String.prototype.replace called on a value that is not a string throws
MermaidMainRaises(kgData, config) ==
  \/ \E e \in Range(LimitedEntities(kgData, config)) :
       ~IsString(e.id) \/ ~IsString(e.label)
  \/ \E r \in Range(LimitedRelationships(kgData, config)) :
       ~IsString(r.source) \/ ~IsString(r.target) \/ ~IsString(r.type)

\* lines 30-66: one node line per selected entity, one edge line per selected relationship
MermaidMain(kgData, config) ==
  LET ents == LimitedEntities(kgData, config)
      rels == LimitedRelationships(kgData, config)
  IN [path |-> "main",
      nodes |-> [i \in DOMAIN ents |->
                   [id |-> sanitizeId(ents[i].id.str),
                    label |-> sanitizeLabel(ents[i].label.str),
                    style |-> getNodeStyle(ents[i])]],
      edges |-> [i \in DOMAIN rels |->
                   [source |-> sanitizeId(rels[i].source.str),
                    target |-> sanitizeId(rels[i].target.str),
                    arrow |-> getArrowStyle(Or(rels[i].weight, Num(5))),
                    label |-> sanitizeLabel(rels[i].type.str)]]]

FallbackRaises(entities) ==
  \E e \in Range(Slice(entities, FallbackEntityLimit)) : ~IsString(e.label)

FallbackNodeId(index) == <<"E", ToString(index)>>

FallbackEdge(i, j) ==
  [source |-> FallbackNodeId(i), target |-> FallbackNodeId(j),
   arrow |-> "-->", label |-> <<>>]

\* generateFallbackMermaid: the entities as the main path left them
generateFallbackMermaid(entities) ==
  LET ents == Slice(entities, FallbackEntityLimit)
  IN [path |-> "fallback",
      nodes |-> [i \in DOMAIN ents |->
                   [id |-> FallbackNodeId(i - 1),
                    label |-> sanitizeLabel(ents[i].label.str),
                    style |-> Undefined]],
      edges |-> IF Len(ents) > 2 THEN <<FallbackEdge(0, 1), FallbackEdge(1, 2)>>
                ELSE IF Len(ents) > 1 THEN <<FallbackEdge(0, 1)>>
                ELSE <<>>]

\* returns the diagram, whether the call raised, and kgData.entities after the call
generateMermaidCode(kgData, config) ==
  LET sorted == SortedEntities(kgData)
  IN IF ~MermaidMainRaises(kgData, config)
       THEN [raised |-> FALSE, diagram |-> MermaidMain(kgData, config), entities |-> sorted]
     ELSE IF FallbackRaises(sorted)
       THEN [raised |-> TRUE, diagram |-> NoDiagram, entities |-> sorted]
     ELSE [raised |-> FALSE, diagram |-> generateFallbackMermaid(sorted), entities |-> sorted]

----------------------------------------------------------------------------
(* generateFallbackCypher (services/kg/cypher).                            *)

UpperAtom(c) ==
  CASE c = "a" -> "A" [] c = "b" -> "B" [] c = "t" -> "T" [] c = "z" -> "Z"
    [] c = "person" -> "PERSON" [] c = "other" -> "OTHER"
    [] c = "related_to" -> "RELATED_TO"
    [] OTHER -> c

LowerAtom(c) ==
  CASE c = "A" -> "a" [] c = "B" -> "b" [] c = "T" -> "t" [] c = "Z" -> "z"
    [] OTHER -> c

\* charAt(0).toUpperCase() of the first atom
CapitalAtom(c) ==
  CASE c = "person" -> "Person" [] c = "other" -> "Other"
    [] OTHER -> UpperAtom(c)

\* a method of String.prototype called on a truthy value that is not a string throws
ThrowsOnStringMethod(v) == Truthy(v) /\ ~IsString(v)

capitalizeFirst(type) ==
  IF ~Truthy(type) THEN <<"Entity">>
  ELSE <<CapitalAtom(Head(type.str))>> \o
       [i \in 1..(Len(type.str) - 1) |-> LowerAtom(type.str[i + 1])]

\* str.replace(/["']/g, '\\"').replace(/[\r\n]/g, ' ').trim()
sanitizeCypherString(v) ==
  IF ~Truthy(v) THEN <<>>
  ELSE Trim([i \in DOMAIN v.str |->
               IF v.str[i] \in QuoteAtoms THEN "\\\""
               ELSE IF v.str[i] = "\n" THEN " "
               ELSE v.str[i]])

RECURSIVE CollapseUnderscores(_)
CollapseUnderscores(s) ==
  IF Len(s) < 2 THEN s
  ELSE IF s[1] = "_" /\ s[2] = "_" THEN CollapseUnderscores(Tail(s))
  ELSE <<Head(s)>> \o CollapseUnderscores(Tail(s))

\* .replace(/^_|_$/g, ''): one leading and one trailing underscore
StripEdgeUnderscores(s) ==
  LET a == IF s # <<>> /\ Head(s) = "_" THEN Tail(s) ELSE s
  IN IF a # <<>> /\ a[Len(a)] = "_" THEN SubSeq(a, 1, Len(a) - 1) ELSE a

sanitizeRelationshipType(type) ==
  IF ~Truthy(type) THEN <<"RELATED_TO">>
  ELSE LET upper == [i \in DOMAIN type.str |-> UpperAtom(type.str[i])]
           replaced == [i \in DOMAIN upper |->
                          IF upper[i] \in NonAlnumAtoms THEN "_" ELSE upper[i]]
       IN StripEdgeUnderscores(CollapseUnderscores(replaced))

\* [...new Set(xs)]: first occurrences, in order
RECURSIVE Distinct(_)
Distinct(s) ==
  IF s = <<>> THEN <<>>
  ELSE LET front == Distinct(SubSeq(s, 1, Len(s) - 1))
           last == s[Len(s)]
       IN IF last \in Range(front) THEN front ELSE Append(front, last)

EntityTypes(kgData) ==
  Distinct([i \in DOMAIN kgData.entities |-> kgData.entities[i].type])

FallbackCypherRaises(kgData) ==
  \/ \E e \in Range(kgData.entities) :
       \/ ThrowsOnStringMethod(e.type)
       \/ ThrowsOnStringMethod(e.id)
       \/ ThrowsOnStringMethod(e.label)
       \/ ThrowsOnStringMethod(e.description)
  \/ \E r \in Range(kgData.relationships) :
       \/ ThrowsOnStringMethod(r.source)
       \/ ThrowsOnStringMethod(r.target)
       \/ ThrowsOnStringMethod(r.type)
       \/ ThrowsOnStringMethod(r.description)

\* lines 139-151: one MATCH ... MERGE statement per relationship of kgData
CypherRelationshipStatements(kgData) ==
  [i \in DOMAIN kgData.relationships |->
     LET rel == kgData.relationships[i]
     IN [source |-> sanitizeCypherString(rel.source),
         target |-> sanitizeCypherString(rel.target),
         type |-> sanitizeRelationshipType(rel.type),
         weight |-> Or(rel.weight, Num(5)),
         description |-> sanitizeCypherString(Or(rel.description, Str(<<>>)))]]

\* lines 122-134: one MERGE statement per entity of kgData
CypherNodeStatements(kgData) ==
  [i \in DOMAIN kgData.entities |->
     LET entity == kgData.entities[i]
     IN [labelName |-> capitalizeFirst(entity.type),
         id |-> sanitizeCypherString(entity.id),
         label |-> sanitizeCypherString(entity.label),
         description |-> sanitizeCypherString(Or(entity.description, Str(<<>>))),
         importance |-> Or(entity.importance, Num(5))]]

NoScript ==
  [raised |-> TRUE, constraints |-> <<>>, nodes |-> <<>>,
   relationships |-> <<>>, indexes |-> <<>>]

generateFallbackCypher(kgData) ==
  IF FallbackCypherRaises(kgData) THEN NoScript
  ELSE LET labels == [i \in DOMAIN EntityTypes(kgData) |->
                        capitalizeFirst(EntityTypes(kgData)[i])]
       IN [raised |-> FALSE,
           constraints |-> labels,
           nodes |-> CypherNodeStatements(kgData),
           relationships |-> CypherRelationshipStatements(kgData),
           indexes |-> labels]

----------------------------------------------------------------------------
(* LLMService.parseAnalysisResponse and createFallbackResponse.            *)

TaskTypes ==
  {"summarize", "extract_entities", "analyze_sentiment", "generate_keywords",
   "extract_relationships"}

\* the object decoded from "{}" has no keys
EmptyAnalysisDoc == [keys |-> {}]

\* an analysis value: its top-level keys and, where a key holds the response, the text
AnalysisValue(kind, keys, text, wordCount) ==
  [raised |-> FALSE, kind |-> kind, keys |-> keys, text |-> text, wordCount |-> wordCount]

AnalysisRaised ==
  [raised |-> TRUE, kind |-> "none", keys |-> {}, text |-> <<>>, wordCount |-> 0]

\* response.split(' ').length, "w" being one space
SplitLength(toks) == Cardinality(Positions(toks, "w")) + 1

createFallbackResponse(response, taskType) ==
  CASE taskType = "summarize" ->
         AnalysisValue("fallback", {"summary", "keyPoints", "wordCount"},
                       response.toks, SplitLength(response.toks))
    [] taskType = "extract_entities" ->
         AnalysisValue("fallback", {"entities"}, <<>>, 0)
    [] taskType = "analyze_sentiment" ->
         AnalysisValue("fallback", {"sentiment", "label", "confidence", "keyPhrases"}, <<>>, 0)
    [] taskType = "generate_keywords" ->
         AnalysisValue("fallback", {"keywords"}, <<>>, 0)
    [] taskType = "extract_relationships" ->
         AnalysisValue("fallback", {"relationships"}, <<>>, 0)
    [] OTHER ->
         AnalysisValue("fallback", {"result"}, response.toks, 0)

\* the catch block, had it rethrown
AnalysisCatch_Rethrow(response, taskType) == AnalysisRaised

\* the catch block of lines 221-224
AnalysisCatch(response, taskType) == createFallbackResponse(response, taskType)

parseAnalysisResponse(response, taskType) ==
  IF HasJsonMatch(response.toks)
    THEN IF JsonDecodes(JsonMatch(response.toks))
           THEN AnalysisValue("decoded",
                  JsonParse(JsonMatch(response.toks), response.doc, EmptyAnalysisDoc).keys,
                  <<>>, 0)
           ELSE AnalysisCatch(response, taskType)
    ELSE createFallbackResponse(response, taskType)

----------------------------------------------------------------------------
(* generateKG (services/kg/service).                                       *)

\* a progressCallback: absent, or present and throwing when passed `throwAt`
\* (0: it never throws)
NoCallback == [present |-> FALSE, throwAt |-> 0]
Callback(throwAt) == [present |-> TRUE, throwAt |-> throwAt]

\* progressCallback?.(p, ...): the percentages passed so far
Notify(cb, progress, p) == IF cb.present THEN Append(progress, p) ELSE progress

Throws(cb, p) == cb.present /\ cb.throwAt = p

ErrEngine == "LLM generation failed: engine error"
ErrEmptyResponse == "LLM generation failed: LLM returned empty response"
ErrCallbackInGeneration == "LLM generation failed: callback error"
ErrParse == "Failed to parse knowledge graph from LLM response"
ErrCallback == "callback error"
ErrTypeError == "TypeError: not a function"

NoResult ==
  [returned |-> FALSE, rejected |-> FALSE, success |-> FALSE, error |-> "",
   data |-> NullData, mermaidCode |-> NoDiagram, metadata |-> FALSE]

\* lines 72-76: the catch around the engine call
GenerationFailed(error) ==
  [returned |-> TRUE, rejected |-> FALSE, success |-> FALSE, error |-> error,
   data |-> NullData, mermaidCode |-> NoDiagram, metadata |-> FALSE]

\* lines 85-92
ParseFailed ==
  [returned |-> TRUE, rejected |-> FALSE, success |-> FALSE, error |-> ErrParse,
   data |-> NullData, mermaidCode |-> NoDiagram, metadata |-> FALSE]

\* the outer catch, had it rethrown
OuterCatch_Rethrow(error) ==
  [returned |-> TRUE, rejected |-> TRUE, success |-> FALSE, error |-> error,
   data |-> NullData, mermaidCode |-> NoDiagram, metadata |-> FALSE]

\* lines 117-129: the outer catch
OuterCatch(error) ==
  [returned |-> TRUE, rejected |-> FALSE, success |-> FALSE, error |-> error,
   data |-> NullData, mermaidCode |-> NoDiagram, metadata |-> TRUE]

\* lines 105-115
Succeeded(rawData, mermaidCode) ==
  [returned |-> TRUE, rejected |-> FALSE, success |-> TRUE, error |-> "",
   data |-> rawData, mermaidCode |-> mermaidCode, metadata |-> TRUE]

\* line 85: if (!rawData)
RawDataMissing(rawData) == rawData.isNull

\* line 67: !llmResponse || llmResponse.trim().length === 0
ResponseEmpty(response) == IsBlank(response.toks)

\* lines 35-57, up to the await of llmService.complete
GenerateKGBeforeComplete(cb) ==
  LET p10 == Notify(cb, <<>>, 10)
      p20 == Notify(cb, p10, 20)
      p40 == Notify(cb, p20, 40)
      p50 == Notify(cb, p40, 50)
  IN IF Throws(cb, 10) THEN [progress |-> p10, result |-> OuterCatch(ErrCallback)]
     ELSE IF Throws(cb, 20) THEN [progress |-> p20, result |-> OuterCatch(ErrCallback)]
     ELSE IF Throws(cb, 40) THEN [progress |-> p40, result |-> OuterCatch(ErrCallback)]
     ELSE IF Throws(cb, 50)
       THEN [progress |-> p50, result |-> GenerationFailed(ErrCallbackInGeneration)]
     ELSE [progress |-> p50, result |-> NoResult]

\* lines 59-115, from the settlement of llmService.complete to the return;
\* resolved = FALSE: the call rejected
GenerateKGAfterComplete(cb, progress, resolved, response, rnd) ==
  LET p80 == Notify(cb, progress, 80)
      p70 == Notify(cb, p80, 70)
      p90 == Notify(cb, p70, 90)
      p100 == Notify(cb, p90, 100)
      rawData == parseKGResponse(response, rnd)
      mermaid == generateMermaidCode(rawData, DefaultMermaidConfig)
      sortedData == [rawData EXCEPT !.entities = mermaid.entities]
  IN IF ~resolved THEN [progress |-> progress, result |-> GenerationFailed(ErrEngine)]
     ELSE IF Throws(cb, 80)
       THEN [progress |-> p80, result |-> GenerationFailed(ErrCallbackInGeneration)]
     ELSE IF ResponseEmpty(response)
       THEN [progress |-> p80, result |-> GenerationFailed(ErrEmptyResponse)]
     ELSE IF Throws(cb, 70) THEN [progress |-> p70, result |-> OuterCatch(ErrCallback)]
     ELSE IF RawDataMissing(rawData) THEN [progress |-> p70, result |-> ParseFailed]
     ELSE IF Throws(cb, 90) THEN [progress |-> p90, result |-> OuterCatch(ErrCallback)]
     ELSE IF mermaid.raised THEN [progress |-> p90, result |-> OuterCatch(ErrTypeError)]
     ELSE IF Throws(cb, 100) THEN [progress |-> p100, result |-> OuterCatch(ErrCallback)]
     ELSE [progress |-> p100, result |-> Succeeded(sortedData, mermaid.diagram)]

----------------------------------------------------------------------------
(* Inputs.                                                                 *)

\* every text of at most MaxToks tokens
Texts == SeqsUpTo(Tokens, MaxToks)

RawEntity(id, label, name, importance) ==
  [id |-> id, label |-> label, name |-> name, type |-> Undefined,
   properties |-> NoProps, description |-> Undefined, importance |-> importance]

RawRelationship(id, source, target, type, weight) ==
  [id |-> id, source |-> source, target |-> target, type |-> type,
   relationship |-> Undefined, properties |-> NoProps, weight |-> weight,
   description |-> Undefined]

IdA == Str(<<"a">>)
IdB == Str(<<"b">>)
IdZ == Str(<<"z", "z">>)
LabelL == Str(<<"L">>)
TypeT == Str(<<"t">>)

EntityA == RawEntity(IdA, LabelL, Undefined, Num(3))
EntityB == RawEntity(IdB, LabelL, Undefined, Num(9))
RelAB == RawRelationship(Str(<<"r">>), IdA, IdB, TypeT, Num(9))

\* decoded objects an engine response to the extraction prompt may denote
PipelineDocs ==
  { Doc(NotAnArray, Arr(<<>>)),
    Doc(Arr(<<EntityA>>), NoArray),
    Doc(Arr(<<>>), Arr(<<>>)),
    Doc(Arr(<<EntityA, EntityB>>), Arr(<<RelAB>>)),
    Doc(Arr(<<EntityA>>), Arr(<<RawRelationship(Undefined, IdA, IdZ, Undefined, Undefined)>>)),
    Doc(Arr(<<RawEntity(Undefined, Undefined, Undefined, Undefined)>>), Arr(<<>>)),
    Doc(Arr(<<EntityA, RawEntity(Num(7), LabelL, Undefined, Num(9))>>), Arr(<<>>)),
    Doc(Arr(<<RawEntity(IdB, Num(7), Undefined, Num(9))>>), Arr(<<>>)) }

\* a text with a member list denotes an object with members
ResponsesOver(texts, docs, emptyObject) ==
  {r \in [toks : texts, doc : docs \cup {emptyObject}] :
     ("m" \in Range(r.toks)) <=> (r.doc # emptyObject)}

Responses == ResponsesOver(Texts, PipelineDocs, EmptyDoc)

NoResponse == [toks |-> <<>>, doc |-> EmptyDoc]

Injections(S, T) == {f \in [S -> T] : \A x, y \in S : x # y => f[x] # f[y]}

\* one draw of Math.random per entity / relationship that lacks an id; the draws
\* of one call are taken to differ (nine base-36 digits each)
RandomDraws(doc) ==
  [e : Injections({i \in DOMAIN doc.entities.items : ~Truthy(doc.entities.items[i].id)},
                  1..MaxEntities),
   r : Injections({i \in DOMAIN doc.relationships.items :
                     ~Truthy(doc.relationships.items[i].id)},
                  1..MaxRels)]

\* the callbacks a caller of createKGService may pass
Callbacks == {NoCallback} \cup {Callback(p) : p \in {0, 10, 20, 40, 50, 80, 70, 90, 100}}

----------------------------------------------------------------------------
(* State.                                                                  *)

VARIABLES
  service,    \* createKGHandlers: "initializing", "ready" (isInitialized) or "failed"
  pc,         \* position of the one run followed
  caller,     \* "none", "direct" (generateKG called directly) or "handler"
  cb,         \* the progressCallback of the run
  progress,   \* the percentages passed to progressCallback, in order
  engine,     \* llmService.complete: "none", "pending", "resolved", "rejected"
  response,   \* the text complete() resolved with
  result,     \* what generateKG returned
  events,     \* the chunks enqueued on the response stream
  stored,     \* the knowledge graphs saved by storage.saveKG
  closed,     \* controller.close() was called
  http,       \* status of the HTTP response (0: none yet)
  calls,      \* the number of llmService.complete() calls of the run
  engines,    \* per handler group, the LLMService it created and its backend
  inflight,   \* per handler group, the backend.complete() calls not yet settled
  reqs,       \* the requests being handled concurrently, each with its position
  op,         \* the function applied to `arg` ("none": not yet)
  arg,        \* input of a function under test
  ret,        \* its result
  kgState,    \* the dashboard KG modal: its stage and the graph it shows
  generations,\* the startKGGeneration calls of the dashboard, each with its position
  kgCollection \* the knowledge_graphs collection of the storage, by id

pipelineVars ==
  <<service, pc, caller, cb, progress, engine, response, result, events, stored,
    closed, http, calls>>
serverVars == <<engines, inflight, reqs>>
functionVars == <<op, arg, ret>>
dashboardVars == <<kgState, generations>>
storageVars == <<kgCollection>>
vars == <<pipelineVars, serverVars, functionVars, dashboardVars, storageVars>>

\* the startKGGeneration calls followed
MaxGenerations == 2
Generations == 1..MaxGenerations
IdleGeneration == [pc |-> "idle", session |-> 0, stream |-> <<>>]

\* createServer: createLLMHandlers and createKGHandlers each hold an LLMService
HandlerGroups == {"llm", "kg"}

\* the requests followed side by side
MaxRequests == 2
Requests == 1..MaxRequests

IdleRequest == [kind |-> "none", pc |-> "idle", calls |-> 0, out |-> <<>>]

\* both handler groups were created and each started its initialize()
ServerInit ==
  /\ engines = [g \in HandlerGroups |-> "loading"]
  /\ inflight = [g \in HandlerGroups |-> 0]
  /\ reqs = [r \in Requests |-> IdleRequest]

Event(type, percent, res, message) ==
  [type |-> type, progress |-> percent, rawData |-> res.data,
   mermaidCode |-> res.mermaidCode, message |-> message]

ProgressEvents(percents) ==
  [i \in DOMAIN percents |-> Event("progress", percents[i], NoResult, "")]

PipelineInit ==
  /\ service = "initializing"
  /\ pc = "idle"
  /\ caller = "none"
  /\ cb = NoCallback
  /\ progress = <<>>
  /\ engine = "none"
  /\ response = NoResponse
  /\ result = NoResult
  /\ events = <<>>
  /\ stored = <<>>
  /\ closed = FALSE
  /\ http = 0
  /\ calls = 0

\* kgModal.ts lines 13-19; no startKGGeneration call yet
DashboardInit ==
  /\ kgState = [currentStage |-> "input", kgData |-> 0, kgId |-> 0,
                session |-> 0, visible |-> FALSE]
  /\ generations = [g \in Generations |-> IdleGeneration]

\* an empty knowledge_graphs collection
StorageInit == kgCollection = <<>>

Init ==
  /\ PipelineInit
  /\ ServerInit
  /\ DashboardInit
  /\ StorageInit
  /\ op = "none"
  /\ arg = <<>>
  /\ ret = <<>>

----------------------------------------------------------------------------
(* createKGHandlers and the /api/kg/generate handler (api/llm).            *)

\* initializeServices: llmService.initialize resolved
InitializeServicesResolves ==
  /\ service = "initializing"
  /\ pc = "idle"
  /\ service' = "ready"
  /\ UNCHANGED <<pc, caller, cb, progress, engine, response, result, events, stored,
                 closed, http, calls, functionVars, dashboardVars, storageVars, serverVars>>

\* initializeServices: llmService.initialize rejected; the catch only logs
InitializeServicesRejects ==
  /\ service = "initializing"
  /\ pc = "idle"
  /\ service' = "failed"
  /\ UNCHANGED <<pc, caller, cb, progress, engine, response, result, events, stored,
                 closed, http, calls, functionVars, dashboardVars, storageVars, serverVars>>

\* lines 566-578: the service is not initialized
HandleGenerateUnavailable ==
  /\ pc = "idle"
  /\ service # "ready"
  /\ http' = 503
  /\ pc' = "responded"
  /\ caller' = "handler"
  /\ UNCHANGED <<service, cb, progress, engine, response, result, events, stored,
                 closed, calls, functionVars, dashboardVars, storageVars, serverVars>>

\* lines 580-597 and 713-726: the body is invalid (500) or names no stored document (404)
HandleGenerateRefused(status) ==
  /\ pc = "idle"
  /\ service = "ready"
  /\ http' = status
  /\ pc' = "responded"
  /\ caller' = "handler"
  /\ UNCHANGED <<service, cb, progress, engine, response, result, events, stored,
                 closed, calls, functionVars, dashboardVars, storageVars, serverVars>>

\* lines 600-622: the stream starts and generateKG runs up to the engine call;
\* the streaming callback enqueues one chunk per call and never throws
HandleGenerateStart ==
  /\ pc = "idle"
  /\ service = "ready"
  /\ LET before == GenerateKGBeforeComplete(Callback(0))
     IN /\ progress' = before.progress
        /\ events' = ProgressEvents(before.progress)
  /\ http' = 200
  /\ caller' = "handler"
  /\ cb' = Callback(0)
  /\ engine' = "pending"
  /\ calls' = calls + 1
  /\ pc' = "awaiting"
  /\ UNCHANGED <<service, response, result, stored, closed, functionVars, dashboardVars, storageVars, serverVars>>

\* generateKG of a service created over the same llmService with callback c,
\* called outside the handler
GenerateKGDirect(c) ==
  /\ pc = "idle"
  /\ service = "ready"
  /\ caller' = "direct"
  /\ cb' = c
  /\ LET before == GenerateKGBeforeComplete(c)
     IN /\ progress' = before.progress
        /\ result' = before.result
        /\ IF before.result.returned
             THEN pc' = "returned" /\ engine' = engine /\ calls' = calls
             ELSE pc' = "awaiting" /\ engine' = "pending" /\ calls' = calls + 1
  /\ UNCHANGED <<service, response, events, stored, closed, http, functionVars, dashboardVars, storageVars,
                 serverVars>>

\* the chunks the streaming callback enqueued for the percentages after `old`
NewProgressEvents(old, new) ==
  ProgressEvents(SubSeq(new, Len(old) + 1, Len(new)))

\* llmService.complete resolved with resp; generateKG runs to its return
CompleteResolves(resp, rnd) ==
  /\ pc = "awaiting"
  /\ LET after == GenerateKGAfterComplete(cb, progress, TRUE, resp, rnd)
     IN /\ progress' = after.progress
        /\ result' = after.result
        /\ events' = IF caller = "handler"
                       THEN events \o NewProgressEvents(progress, after.progress)
                       ELSE events
  /\ response' = resp
  /\ engine' = "resolved"
  /\ pc' = "returned"
  /\ UNCHANGED <<service, caller, cb, stored, closed, http, calls, functionVars, dashboardVars, storageVars, serverVars>>

\* llmService.complete rejected, had the run called the engine again
CompleteRejects_Retry ==
  /\ pc = "awaiting"
  /\ calls <= 2
  /\ calls' = calls + 1
  /\ UNCHANGED <<service, pc, caller, cb, progress, engine, response, result, events,
                 stored, closed, http, functionVars, dashboardVars, storageVars, serverVars>>

\* llmService.complete rejected
CompleteRejects ==
  /\ pc = "awaiting"
  /\ LET after == GenerateKGAfterComplete(cb, progress, FALSE, NoResponse, <<>>)
     IN /\ progress' = after.progress
        /\ result' = after.result
  /\ engine' = "rejected"
  /\ pc' = "returned"
  /\ UNCHANGED <<service, caller, cb, response, events, stored, closed, http,
                 calls, functionVars, dashboardVars, storageVars, serverVars>>

\* the handler, had it saved whatever generateKG returned
ShouldSave_Always(res) == TRUE

\* line 624: if (result.success)
ShouldSave(res) == res.success

\* lines 624-679: the handler resumes with generateKG's result
HandleGenerateResult ==
  /\ pc = "returned"
  /\ caller = "handler"
  /\ IF ShouldSave(result)
       THEN /\ pc' = "saving"
            /\ UNCHANGED <<events, closed>>
       ELSE /\ events' = Append(events, Event("error", 0, NoResult, result.error))
            /\ closed' = TRUE
            /\ pc' = "closed"
  /\ UNCHANGED <<service, caller, cb, progress, engine, response, result, stored,
                 http, calls, functionVars, dashboardVars, storageVars, serverVars>>

\* lines 627-679: storage.saveKG resolved; the result chunk is enqueued, the stream closed
SaveKGResolves ==
  /\ pc = "saving"
  /\ stored' = Append(stored, [rawData |-> result.data, mermaidCode |-> result.mermaidCode])
  /\ events' = Append(events, Event("result", 0, result, ""))
  /\ closed' = TRUE
  /\ pc' = "closed"
  /\ UNCHANGED <<service, caller, cb, progress, engine, response, result, http,
                 calls, functionVars, dashboardVars, storageVars, serverVars>>

\* lines 681-698, had the catch closed the stream without an error chunk
SaveKGRejects_Silent ==
  /\ pc = "saving"
  /\ closed' = TRUE
  /\ pc' = "closed"
  /\ UNCHANGED <<service, caller, cb, progress, engine, response, result, events,
                 stored, http, calls, functionVars, dashboardVars, storageVars, serverVars>>

\* lines 681-698: storage.saveKG rejected; the catch enqueues an error chunk
SaveKGRejects ==
  /\ pc = "saving"
  /\ events' = Append(events, Event("error", 0, NoResult, "storage error"))
  /\ closed' = TRUE
  /\ pc' = "closed"
  /\ UNCHANGED <<service, caller, cb, progress, engine, response, result, stored,
                 http, calls, functionVars, dashboardVars, storageVars, serverVars>>

Next ==
  \/ InitializeServicesResolves
  \/ InitializeServicesRejects
  \/ HandleGenerateUnavailable
  \/ \E status \in {404, 500} : HandleGenerateRefused(status)
  \/ HandleGenerateStart
  \/ \E c \in Callbacks : GenerateKGDirect(c)
  \/ \E resp \in Responses : \E rnd \in RandomDraws(resp.doc) : CompleteResolves(resp, rnd)
  \/ CompleteRejects
  \/ HandleGenerateResult
  \/ SaveKGResolves
  \/ SaveKGRejects

Spec == Init /\ [][Next]_vars

----------------------------------------------------------------------------
(* Claims about one generateKG run and its handler, checked under Spec.    *)

NonDecreasing(s) == \A i, j \in DOMAIN s : i < j => s[i] <= s[j]

\* no "{" is followed by a "}"
NoBraceSpan(toks) ==
  ~ \E i, j \in DOMAIN toks : i < j /\ toks[i] = "{" /\ toks[j] = "}"

HasResultEvent == \E i \in DOMAIN events : events[i].type = "result"

CallbackThrew == cb.present /\ cb.throwAt \in Range(progress)

\* C1: within one generateKG run the percentages passed to progressCallback never
\* decrease, whatever the outcome of the run.
C1_ProgressMonotonic == NonDecreasing(progress)

\* the engine answered with non-blank text holding no brace-delimited span
ProseResponse ==
  /\ engine = "resolved"
  /\ ~IsBlank(response.toks)
  /\ NoBraceSpan(response.toks)

\* C2: when the engine's response is prose with no brace-delimited span, the run ends
\* failed, with no graph and no diagram, 100% is never reported, and (unless the
\* progress callback itself threw) the error is the extraction error.
C2_ProseFails ==
  (ProseResponse /\ result.returned) =>
    /\ ~result.success
    /\ result.data.isNull
    /\ result.mermaidCode = NoDiagram
    /\ 100 \notin Range(progress)
    /\ ~CallbackThrew => result.error = ErrParse

C2_Witness ==
  /\ ProseResponse
  /\ result.returned
  /\ result.error = ErrParse
  /\ progress = <<10, 20, 40, 50, 80, 70>>

\* C3: a run whose parsed graph has no entity and no relationship ends failed; it
\* never returns success with an empty graph.
C3_EmptyGraphFails ==
  (result.returned /\ result.success) =>
    (result.data.entities # <<>> \/ result.data.relationships # <<>>)

\* C4: generateKG never rejects, and what it returns is either a success with the
\* graph and the diagram, or a failure with an error message and neither of them.
C4_TerminalShapes ==
  /\ pc \in {"returned", "saving", "closed"} => result.returned
  /\ result.returned =>
       /\ ~result.rejected
       /\ \/ /\ result.success
             /\ ~result.data.isNull
             /\ result.mermaidCode # NoDiagram
             /\ result.error = ""
          \/ /\ ~result.success
             /\ result.error # ""
             /\ result.data.isNull
             /\ result.mermaidCode = NoDiagram

\* the diagram stage raised after a successful parse
C4_Witness ==
  /\ result.returned
  /\ result.error = ErrTypeError
  /\ ~parseKGResponse(response, [e |-> <<>>, r |-> <<>>]).isNull
  /\ progress = <<10, 20, 40, 50, 80, 70, 90>>

\* C5: for a run that generateKG ended as a failure the handler never calls
\* storage.saveKG and never enqueues a 'result' event.
C5_FailureNotPersisted ==
  (result.returned /\ ~result.success) => (stored = <<>> /\ ~HasResultEvent)

C5_Witness ==
  /\ caller = "handler"
  /\ pc = "closed"
  /\ ~result.success
  /\ events[Len(events)].type = "error"
  /\ stored = <<>>

----------------------------------------------------------------------------
(* The pure functions, each applied once to an input drawn by Init.        *)

\* no id is missing: Math.random is never drawn
NoDraws == [e |-> <<>>, r |-> <<>>]

FunctionInit(inputs) ==
  /\ PipelineInit
  /\ ServerInit
  /\ DashboardInit
  /\ StorageInit
  /\ op = "none"
  /\ arg \in inputs
  /\ ret = <<>>

Apply(name, value) ==
  /\ op = "none"
  /\ op' = name
  /\ ret' = value
  /\ UNCHANGED <<arg, pipelineVars, serverVars, dashboardVars, storageVars>>

(* parseKGResponse on raw model output *)

ParseEntities ==
  {RawEntity(id, ln[1], ln[2], importance) :
     id \in {Undefined, IdA, IdB},
     ln \in {<<LabelL, Undefined>>, <<Undefined, Str(<<"N">>)>>, <<Undefined, Undefined>>},
     importance \in {Undefined, Num(9)}}

ParseRels ==
  {RelAB,
   RawRelationship(Undefined, IdA, IdZ, Undefined, Undefined),
   RawRelationship(Undefined, IdB, IdA, TypeT, Num(0))}

ParseDocs ==
  {Doc(Arr(es), Arr(rs)) :
     es \in SeqsUpTo(ParseEntities, MaxEntities), rs \in SeqsUpTo(ParseRels, MaxRels)}

\* the object alone, and the object inside commentary
ParseTexts == {<<"{", "m", "}">>, <<"p", "{", "m", "}", "p">>}

ParseInputs == [response : [toks : ParseTexts, doc : ParseDocs]]

ApplyParseKGResponse ==
  \E rnd \in RandomDraws(arg.response.doc) :
    Apply("parseKGResponse", parseKGResponse(arg.response, rnd))

SpecParse == FunctionInit(ParseInputs) /\ [][ApplyParseKGResponse]_vars

\* C6: no two entities of a graph returned by parseKGResponse share an id, even
\* when the raw output repeats or omits ids.
C6_EntityIdsUnique ==
  (op = "parseKGResponse" /\ ~ret.isNull) =>
    \A i, j \in DOMAIN ret.entities :
      i # j => ret.entities[i].id # ret.entities[j].id

(* parseKGResponse on the serialization of a graph *)

\* entities as the extraction produces them: `description` repeats
\* properties.description when the properties hold one
GraphEntities ==
  {e \in [id : {IdA, IdB}, label : {LabelL}, type : {Str(<<"person">>)},
          properties : {Props(Undefined), Props(Str(<<"d">>))},
          description : {Undefined, Str(<<"d">>)},
          importance : {Num(0), Num(5), Num(10)}] :
     Truthy(e.properties.description) => e.description = e.properties.description}

GraphRels ==
  [id : {Str(<<"r">>)}, source : {IdA}, target : {IdB}, type : {TypeT},
   properties : {Props(Undefined)}, weight : {Num(0), Num(10)},
   description : {Undefined}]

DistinctIds(es) == \A i, j \in DOMAIN es : i # j => es[i].id # es[j].id

\* graphs as the data model describes them: ids unique, scores in [0, 1]
RawGraphs ==
  {g \in [isNull : {FALSE},
          entities : SeqsUpTo(GraphEntities, MaxEntities),
          relationships : SeqsUpTo(GraphRels, MaxRels),
          summary : {Undefined, Str(<<"s">>)},
          themes : {NoArray, Arr(<<Str(<<"t">>)>>)}] :
     DistinctIds(g.entities)}

\* JSON.stringify(g): members holding undefined are left out, so that reading
\* them from the decoded object (as `name` and `relationship`, which a graph
\* never has) gives undefined
JSONStringify(g) ==
  [toks |-> <<"{", "m", "}">>,
   doc |->
     [entities |-> Arr([i \in DOMAIN g.entities |->
        [id |-> g.entities[i].id, label |-> g.entities[i].label, name |-> Undefined,
         type |-> g.entities[i].type, properties |-> g.entities[i].properties,
         description |-> g.entities[i].description,
         importance |-> g.entities[i].importance]]),
      relationships |-> Arr([i \in DOMAIN g.relationships |->
        [id |-> g.relationships[i].id, source |-> g.relationships[i].source,
         target |-> g.relationships[i].target, type |-> g.relationships[i].type,
         relationship |-> Undefined, properties |-> g.relationships[i].properties,
         weight |-> g.relationships[i].weight,
         description |-> g.relationships[i].description]]),
      summary |-> g.summary,
      themes |-> g.themes]]

ApplyRoundTrip ==
  Apply("roundTrip", parseKGResponse(JSONStringify(arg.graph), NoDraws))

SpecRoundTrip == FunctionInit([graph : RawGraphs]) /\ [][ApplyRoundTrip]_vars

\* equal field by field, an absent summary or theme list counting as an empty one
GraphEquivalent(g, h) ==
  /\ g.isNull = h.isNull
  /\ g.entities = h.entities
  /\ g.relationships = h.relationships
  /\ Or(g.summary, Str(<<>>)) = Or(h.summary, Str(<<>>))
  /\ ArrOrEmpty(g.themes) = ArrOrEmpty(h.themes)

\* C7: parseKGResponse applied to the JSON serialization of a graph g returns a
\* graph equal to g, field by field (importance and weight 0 included).
C7_RoundTrip == op = "roundTrip" => GraphEquivalent(ret, arg.graph)

(* LLMService.parseAnalysisResponse *)

AnalysisDocs == {[keys |-> {"summary", "keyPoints", "wordCount"}], [keys |-> {"text"}]}

AnalysisInputs ==
  [response : ResponsesOver(Texts, AnalysisDocs, EmptyAnalysisDoc),
   taskType : TaskTypes \cup {"custom"}]

ApplyParseAnalysisResponse ==
  Apply("parseAnalysisResponse", parseAnalysisResponse(arg.response, arg.taskType))

SpecAnalysis == FunctionInit(AnalysisInputs) /\ [][ApplyParseAnalysisResponse]_vars

\* the top-level fields of each task's fallback value
FallbackFields(taskType) ==
  CASE taskType = "summarize" -> {"summary", "keyPoints", "wordCount"}
    [] taskType = "extract_entities" -> {"entities"}
    [] taskType = "analyze_sentiment" -> {"sentiment", "label", "confidence", "keyPhrases"}
    [] taskType = "generate_keywords" -> {"keywords"}
    [] taskType = "extract_relationships" -> {"relationships"}

NotWellFormed(toks) == NoBraceSpan(toks) \/ ~JsonDecodes(JsonMatch(toks))

\* C8: for a response that holds no JSON object span, or a span that does not
\* decode, and for each of the five task types, parseAnalysisResponse returns the
\* task's fallback value and does not raise.
C8_FallbackTotal ==
  (op = "parseAnalysisResponse" /\ arg.taskType \in TaskTypes
     /\ NotWellFormed(arg.response.toks)) =>
    /\ ret.kind = "fallback"
    /\ ret.keys = FallbackFields(arg.taskType)
    /\ arg.taskType = "summarize" => ret.text = arg.response.toks

\* a span is found and fails to decode
C8_Witness ==
  /\ op = "parseAnalysisResponse"
  /\ arg.taskType = "summarize"
  /\ ~NoBraceSpan(arg.response.toks)
  /\ ~JsonDecodes(JsonMatch(arg.response.toks))
  /\ ret.kind = "fallback"

(* generateMermaidCode and generateFallbackCypher on parsed graphs *)

RenderEntities ==
  {RawEntity(id, LabelL, Undefined, importance) :
     id \in {IdA, IdB, Num(7)}, importance \in {Num(3), Num(9)}}
  \cup {RawEntity(IdB, Num(7), Undefined, Num(9))}

RenderRels ==
  {RelAB,
   RawRelationship(Str(<<"r">>), IdA, IdZ, TypeT, Undefined),
   RawRelationship(Str(<<"r">>), IdB, IdA, Num(7), Num(3))}

\* the graphs parseKGResponse yields for these entities and relationships
RenderGraphs ==
  {ConvertParsed(Doc(Arr(es), Arr(rs)), NoDraws) :
     es \in SeqsUpTo(RenderEntities, MaxEntities), rs \in SeqsUpTo(RenderRels, MaxRels)}

MermaidConfigs == [maxNodes : {1, DefaultMaxNodes}, maxEdges : {1, DefaultMaxEdges}]

RenderInputs == [kgData : RenderGraphs, config : MermaidConfigs]

ApplyGenerateMermaidCode ==
  Apply("generateMermaidCode", generateMermaidCode(arg.kgData, arg.config))

ApplyGenerateFallbackCypher ==
  Apply("generateFallbackCypher", generateFallbackCypher(arg.kgData))

RenderNext ==
  \/ ApplyGenerateMermaidCode
  \/ ApplyGenerateFallbackCypher

SpecRender == FunctionInit(RenderInputs) /\ [][RenderNext]_vars

NodeIds(diagram) == {diagram.nodes[i].id : i \in DOMAIN diagram.nodes}

\* the ids of the entities of the input that the diagram shows as nodes
RenderedEntityIds(kgData, diagram) ==
  {e.id : e \in {x \in Range(kgData.entities) :
                   IsString(x.id) /\ sanitizeId(x.id.str) \in NodeIds(diagram)}}

\* the relationships of the input whose two ends are shown as nodes
ResolvedRelationships(kgData, diagram) ==
  {i \in DOMAIN kgData.relationships :
     /\ kgData.relationships[i].source \in RenderedEntityIds(kgData, diagram)
     /\ kgData.relationships[i].target \in RenderedEntityIds(kgData, diagram)}

\* C9: in every diagram generateMermaidCode returns, by its main path or its
\* fallback path, each edge joins two nodes defined in that diagram, and the main
\* path draws no edge for a relationship with an end outside the selected entities.
C9_NoDanglingEdge ==
  (op = "generateMermaidCode" /\ ~ret.raised) =>
    /\ \A i \in DOMAIN ret.diagram.edges :
         /\ ret.diagram.edges[i].source \in NodeIds(ret.diagram)
         /\ ret.diagram.edges[i].target \in NodeIds(ret.diagram)
    /\ ret.diagram.path = "main" =>
         Len(ret.diagram.edges) <=
           Cardinality(ResolvedRelationships(arg.kgData, ret.diagram))

\* one relationship drawn, one dropped for its unknown target
C9_Witness ==
  /\ op = "generateMermaidCode"
  /\ ret.diagram.path = "main"
  /\ arg.config.maxEdges = DefaultMaxEdges
  /\ Len(arg.kgData.relationships) = 2
  /\ Len(ret.diagram.edges) = 1
  /\ \E i \in DOMAIN arg.kgData.relationships : arg.kgData.relationships[i].target = IdZ

\* C10: the deterministic Cypher script holds a MATCH ... MERGE statement only for
\* relationships whose source and target are ids of entities of the graph.
C10_CypherNoDanglingRelationship ==
  (op = "generateFallbackCypher" /\ ~ret.raised) =>
    \A i \in DOMAIN ret.relationships :
      /\ \E n \in DOMAIN ret.nodes : ret.nodes[n].id = ret.relationships[i].source
      /\ \E n \in DOMAIN ret.nodes : ret.nodes[n].id = ret.relationships[i].target

----------------------------------------------------------------------------
(* Selection of nodes and edges by generateMermaidCode.                    *)

SelectEntities ==
  {RawEntity(id, LabelL, Undefined, importance) :
     id \in {IdA, IdB, Num(7)}, importance \in {Num(3), Num(9)}}

SelectRels ==
  {RawRelationship(Str(<<"r">>), IdA, IdB, TypeT, Num(3)),
   RawRelationship(Str(<<"r">>), IdB, IdA, TypeT, Num(9)),
   RawRelationship(Str(<<"r">>), IdA, IdZ, TypeT, Num(9))}

SelectGraphs ==
  {ConvertParsed(Doc(Arr(es), Arr(rs)), NoDraws) :
     es \in SeqsUpTo(SelectEntities, MaxEntities), rs \in SeqsUpTo(SelectRels, MaxRels)}

SelectConfigs == [maxNodes : {1, 2, DefaultMaxNodes}, maxEdges : {1, DefaultMaxEdges}]

SelectInputs == [kgData : SelectGraphs, config : SelectConfigs]

SpecSelect == FunctionInit(SelectInputs) /\ [][ApplyGenerateMermaidCode]_vars

\* the ways to pick k distinct positions out of 1..n, in any order
Picks(n, k) ==
  {s \in [1..k -> 1..n] : \A i, j \in 1..k : s[i] = s[j] => i = j}

AtMost(limit, n) == IF limit < n THEN limit ELSE n

\* the node lines are those of the entities at the positions sel
NodesShow(entities, sel, diagram) ==
  /\ Len(diagram.nodes) = Len(sel)
  /\ \A i \in DOMAIN sel :
       /\ IsString(entities[sel[i]].id)
       /\ diagram.nodes[i].id = sanitizeId(entities[sel[i]].id.str)

\* the edge lines are those of the relationships at the positions sel
EdgesShow(rels, sel, diagram) ==
  /\ Len(diagram.edges) = Len(sel)
  /\ \A i \in DOMAIN sel :
       /\ IsString(rels[sel[i]].source) /\ IsString(rels[sel[i]].target)
       /\ diagram.edges[i].source = sanitizeId(rels[sel[i]].source.str)
       /\ diagram.edges[i].target = sanitizeId(rels[sel[i]].target.str)

\* no position left out has a higher score than one taken
TopScored(candidates, sel, score) ==
  \A out \in candidates \ Range(sel) : \A in \in Range(sel) : score[out] <= score[in]

\* the diagram shows the maxNodes entities of highest importance and, of the
\* relationships between them, the maxEdges of highest weight
SelectsTop(kgData, config, diagram) ==
  LET ents == kgData.entities
      rels == kgData.relationships
  IN \E esel \in Picks(Len(ents), AtMost(config.maxNodes, Len(ents))) :
       LET shown == {ents[i].id : i \in Range(esel)}
           between == {i \in DOMAIN rels :
                         rels[i].source \in shown /\ rels[i].target \in shown}
       IN /\ NodesShow(ents, esel, diagram)
          /\ TopScored(DOMAIN ents, esel, ImportanceKeys(ents))
          /\ \E rsel \in Picks(Len(rels), AtMost(config.maxEdges, Cardinality(between))) :
               /\ Range(rsel) \subseteq between
               /\ EdgesShow(rels, rsel, diagram)
               /\ TopScored(between, rsel, WeightKeys(rels))

C12_MermaidNeverRaises ==
  op = "generateMermaidCode" =>
    /\ ret.diagram.path \in {"main", "fallback"}

----------------------------------------------------------------------------
(* generateCypherCode (services/kg/cypher) and the requests of the server. *)

\* words of an engine response to the compilation prompt: a markdown fence,
\* prose, keywords, and words that hold a keyword inside them
CypherWords == {"fence", "prose", "MATCH", "set", "WITH", "recreate", "preset"}

\* the two replace() calls that drop the markdown fences
IsNotFence(w) == w # "fence"

\* /(CREATE|MERGE|MATCH|WITH)/i, which looks inside words
HasStatementStart(w) == w \in {"MATCH", "WITH", "recreate"}

\* substring(cypherStart) of the word the search matched in
FromStatementStart(w) == IF w = "recreate" THEN "create" ELSE w

\* /\b(CREATE|MERGE|MATCH|SET|WHERE|RETURN)\b/i on one word
IsCypherKeyword(w) == w \in {"MATCH", "set", "create"}

NoCypher == [null |-> TRUE, code |-> <<>>]

\* extractCypherFromResponse, had it taken any text for Cypher
extractCypherFromResponse_AcceptAll(text) ==
  [null |-> FALSE, code |-> SelectSeq(text, IsNotFence)]

extractCypherFromResponse(text) ==
  LET unfenced == SelectSeq(text, IsNotFence)
      starts == {i \in DOMAIN unfenced : HasStatementStart(unfenced[i])}
      cleanedResponse ==
        IF starts = {} THEN unfenced
        ELSE <<FromStatementStart(unfenced[Min(starts)])>> \o
             SubSeq(unfenced, Min(starts) + 1, Len(unfenced))
      hasValidCypher == \E i \in DOMAIN cleanedResponse : IsCypherKeyword(cleanedResponse[i])
  IN IF hasValidCypher THEN [null |-> FALSE, code |-> cleanedResponse] ELSE NoCypher

\* generateCypherCode from the point where llmService.complete settled, inside
\* generateCypherFromKG: the catch of the first returns the deterministic script,
\* the catch of the second turns an error of that script into a failure
GenerateCypherAfterComplete(kgData, resolved, text) ==
  LET cypherCode == extractCypherFromResponse(text)
  IN IF resolved /\ ~cypherCode.null
       THEN [success |-> TRUE, path |-> "engine", code |-> cypherCode.code,
             script |-> NoScript]
       ELSE LET script == generateFallbackCypher(kgData)
            IN [success |-> ~script.raised, path |-> "fallback", code |-> <<>>,
                script |-> script]

\* the graphs sent to /api/kg/to-cypher: one entity and no relationship, no
\* entity at all, two entities joined by a relationship
CypherGraphs ==
  {ConvertParsed(Doc(Arr(es), Arr(rs)), NoDraws) :
     <<es, rs>> \in {<<<<EntityA>>, <<>>>>, <<<<>>, <<>>>>, <<<<EntityA, EntityB>>, <<RelAB>>>>}}

MaxCypherWords == 2
CypherResponses == SeqsUpTo(CypherWords, MaxCypherWords)

\* backend.complete() of the group's LLMService was called, and settled
CallStarted(g) == [inflight EXCEPT ![g] = @ + 1]
CallSettled(g) == [inflight EXCEPT ![g] = @ - 1]

\* llmService.initialize of a handler group resolved: isInitialized = true
EngineInitializeResolves(g) ==
  /\ engines[g] = "loading"
  /\ engines' = [engines EXCEPT ![g] = "ready"]
  /\ UNCHANGED <<inflight, reqs, pipelineVars, functionVars, dashboardVars, storageVars>>

\* llmService.initialize rejected; the handlers answer 503 from then on
EngineInitializeRejects(g) ==
  /\ engines[g] = "loading"
  /\ engines' = [engines EXCEPT ![g] = "failed"]
  /\ UNCHANGED <<inflight, reqs, pipelineVars, functionVars, dashboardVars, storageVars>>

\* handleToCypher, lines 731-742
ToCypherUnavailable(r) ==
  /\ reqs[r].pc = "idle"
  /\ engines["kg"] # "ready"
  /\ reqs' = [reqs EXCEPT ![r] =
                [kind |-> "toCypher", pc |-> "responded", calls |-> 0,
                 out |-> [status |-> 503]]]
  /\ UNCHANGED <<engines, inflight, pipelineVars, functionVars, dashboardVars, storageVars>>

\* handleToCypher up to the engine call of generateCypherCode
ToCypherStart(r, kgData) ==
  /\ reqs[r].pc = "idle"
  /\ engines["kg"] = "ready"
  /\ reqs' = [reqs EXCEPT ![r] =
                [kind |-> "toCypher", pc |-> "awaiting", calls |-> 1,
                 out |-> [kgData |-> kgData]]]
  /\ inflight' = CallStarted("kg")
  /\ UNCHANGED <<engines, pipelineVars, functionVars, dashboardVars, storageVars>>

\* lines 749-783: a failed result is answered 500, a script is stored first
ToCypherSettled(r, resolved, text) ==
  LET outcome == GenerateCypherAfterComplete(reqs[r].out.kgData, resolved, text)
  IN /\ reqs[r].kind = "toCypher"
     /\ reqs[r].pc = "awaiting"
     /\ reqs' = [reqs EXCEPT ![r] =
                   [kind |-> "toCypher",
                    pc |-> IF outcome.success THEN "updating" ELSE "responded",
                    calls |-> reqs[r].calls,
                    out |-> [kgData |-> reqs[r].out.kgData, resolved |-> resolved,
                             response |-> text, result |-> outcome,
                             status |-> IF outcome.success THEN 0 ELSE 500]]]
     /\ inflight' = CallSettled("kg")
     /\ UNCHANGED <<engines, pipelineVars, functionVars, dashboardVars, storageVars>>

ToCypherCompleteResolves(r, text) == ToCypherSettled(r, TRUE, text)

ToCypherCompleteRejects(r) == ToCypherSettled(r, FALSE, <<>>)

\* storage.updateKG settled: 200 with the script, or 500 from the handler's catch
ToCypherUpdateKGSettles(r, status) ==
  /\ reqs[r].kind = "toCypher"
  /\ reqs[r].pc = "updating"
  /\ reqs' = [reqs EXCEPT ![r].pc = "responded", ![r].out.status = status]
  /\ UNCHANGED <<engines, inflight, pipelineVars, functionVars, dashboardVars, storageVars>>

CypherNext ==
  \/ EngineInitializeResolves("kg")
  \/ EngineInitializeRejects("kg")
  \/ ToCypherUnavailable(1)
  \/ \E kgData \in CypherGraphs : ToCypherStart(1, kgData)
  \/ \E text \in CypherResponses : ToCypherCompleteResolves(1, text)
  \/ ToCypherCompleteRejects(1)
  \/ \E status \in {200, 500} : ToCypherUpdateKGSettles(1, status)

SpecCypher == Init /\ [][CypherNext]_vars

\* the text holds none of CREATE, MERGE, MATCH, SET, WHERE, RETURN, not
\* even inside a word
NoCypherKeyword(text) ==
  \A i \in DOMAIN text : text[i] \in {"fence", "prose", "WITH"}

SingleEntityGraph(kgData) ==
  Len(kgData.entities) = 1 /\ Len(kgData.relationships) = 0

----------------------------------------------------------------------------
(* The event stream of /api/kg/generate.                                   *)

IsProgressEvent(e) == e.type = "progress"
IsTerminalEvent(e) == e.type \in {"result", "error"}

\* progress events only
OnlyProgress(evs) == \A i \in DOMAIN evs : IsProgressEvent(evs[i])

\* progress events, then one terminal event as the last one
ProgressThenOneTerminal(evs) ==
  /\ evs # <<>>
  /\ IsTerminalEvent(evs[Len(evs)])
  /\ OnlyProgress(SubSeq(evs, 1, Len(evs) - 1))

StreamShape ==
  (caller = "handler" /\ http = 200) =>
    IF closed THEN ProgressThenOneTerminal(events) ELSE OnlyProgress(events)

StreamStaysClosed == closed => (closed' /\ events' = events)

\* C14: the stream of an accepted /api/kg/generate request holds progress
\* events only until it is closed, is closed with exactly one terminal event
\* ('result' or 'error') as its last event, and receives no event afterwards,
\* also when storage.saveKG rejects after a successful generation.
C14_OneTerminalEvent == [](StreamShape) /\ [][StreamStaysClosed]_vars

\* generation succeeded, saveKG rejected: progress up to 100, then one error
C14_Witness ==
  /\ closed
  /\ result.success
  /\ stored = <<>>
  /\ Len(events) > 1
  /\ events[Len(events)].type = "error"
  /\ events[Len(events) - 1].progress = 100

----------------------------------------------------------------------------
(* DocumentProcessor (services/llm/processors/DocumentProcessor).          *)
(* A text is a sequence of characters.                                     *)

IsTerminator(c) == c \in {".", "!", "?"}
IsWhitespace(c) == c \in {" ", "\n"}

\* Math.ceil(text.length / 4)
estimateTokens(text) == (Len(text) + 3) \div 4

RECURSIVE StripLeft(_)
StripLeft(s) == IF s # <<>> /\ IsWhitespace(Head(s)) THEN StripLeft(Tail(s)) ELSE s

RECURSIVE StripRight(_)
StripRight(s) ==
  IF s # <<>> /\ IsWhitespace(s[Len(s)]) THEN StripRight(SubSeq(s, 1, Len(s) - 1)) ELSE s

\* String.prototype.trim
Strip(s) == StripRight(StripLeft(s))

\* the last position of the run of terminators that starts at p
RECURSIVE TerminatorRunEnd(_, _)
TerminatorRunEnd(s, p) ==
  IF p < Len(s) /\ IsTerminator(s[p + 1]) THEN TerminatorRunEnd(s, p + 1) ELSE p

\* the last position of the run of whitespace that follows position p
RECURSIVE WhitespaceRunEnd(_, _)
WhitespaceRunEnd(s, p) ==
  IF p < Len(s) /\ IsWhitespace(s[p + 1]) THEN WhitespaceRunEnd(s, p + 1) ELSE p

\* the positions where /[.!?]+\s+/ matches: a run of terminators followed by whitespace
SeparatorStarts(s) ==
  {p \in DOMAIN s :
     /\ IsTerminator(s[p])
     /\ WhitespaceRunEnd(s, TerminatorRunEnd(s, p)) > TerminatorRunEnd(s, p)}

\* text.split(/[.!?]+\s+/)
RECURSIVE SplitAtSeparators(_)
SplitAtSeparators(s) ==
  IF SeparatorStarts(s) = {} THEN <<s>>
  ELSE LET p == Min(SeparatorStarts(s))
           q == WhitespaceRunEnd(s, TerminatorRunEnd(s, p))
       IN <<SubSeq(s, 1, p - 1)>> \o SplitAtSeparators(SubSeq(s, q + 1, Len(s)))

IsNotBlank(s) == Strip(s) # <<>>

\* lines 207-213
splitIntoSentences(text) ==
  LET parts == SelectSeq(SplitAtSeparators(text), IsNotBlank)
  IN [i \in DOMAIN parts |-> Strip(parts[i])]

\* Array.prototype.join
RECURSIVE Join(_, _)
Join(parts, sep) ==
  IF parts = <<>> THEN <<>>
  ELSE IF Len(parts) = 1 THEN parts[1]
  ELSE parts[1] \o sep \o Join(Tail(parts), sep)

\* slice(-k): the last k elements, and every element when k is 0
LastElements(s, k) ==
  IF k = 0 \/ k >= Len(s) THEN s ELSE SubSeq(s, Len(s) - k + 1, Len(s))

\* lines 215-219
createOverlap(currentChunk, newSentence, config) ==
  LET sentences == splitIntoSentences(currentChunk)
      overlapSentences == LastElements(sentences, config.chunkOverlap \div 100)
  IN Join(overlapSentences, <<" ">>) \o <<" ">> \o newSentence

Chunk(content, index, tokens, section) ==
  [content |-> content, index |-> index, tokens |-> tokens, section |-> section]

\* the loops of chunkText (lines 178-193) and splitLargeSection (lines 135-156):
\* returns the chunks pushed and the chunk left open
RECURSIVE SentenceLoop(_, _, _, _, _)
SentenceLoop(sentences, currentChunk, chunks, config, label) ==
  IF sentences = <<>> THEN [chunks |-> chunks, currentChunk |-> currentChunk]
  ELSE LET sentence == Head(sentences)
           potentialChunk == currentChunk \o sentence \o <<" ">>
       IN IF estimateTokens(potentialChunk) > config.chunkSize /\ currentChunk # <<>>
            THEN SentenceLoop(Tail(sentences),
                              createOverlap(currentChunk, sentence, config),
                              Append(chunks,
                                     Chunk(Strip(currentChunk), Len(chunks),
                                           estimateTokens(currentChunk),
                                           <<label, Len(chunks) + 1>>)),
                              config, label)
            ELSE SentenceLoop(Tail(sentences), potentialChunk, chunks, config, label)

\* the loop, then the final chunk (lines 195-202 and 159-168)
SentenceChunks(text, config, label) ==
  LET done == SentenceLoop(splitIntoSentences(text), <<>>, <<>>, config, label)
  IN IF Strip(done.currentChunk) # <<>>
       THEN Append(done.chunks,
                   Chunk(Strip(done.currentChunk), Len(done.chunks),
                         estimateTokens(done.currentChunk),
                         <<label, Len(done.chunks) + 1>>))
       ELSE done.chunks

\* lines 173-205
chunkText(content, type, config) == SentenceChunks(content, config, type)

\* lines 129-171: every index is 0, to be set by the caller
splitLargeSection(content, sectionTitle, config) ==
  LET chunks == SentenceChunks(content, config, sectionTitle)
  IN [i \in DOMAIN chunks |-> [chunks[i] EXCEPT !.index = 0]]

\* content.split('\n')
RECURSIVE SplitLines(_)
SplitLines(s) ==
  LET breaks == {p \in DOMAIN s : s[p] = "\n"}
  IN IF breaks = {} THEN <<s>>
     ELSE <<SubSeq(s, 1, Min(breaks) - 1)>> \o
          SplitLines(SubSeq(s, Min(breaks) + 1, Len(s)))

\* the number of '#' a line starts with
RECURSIVE HashCount(_)
HashCount(line) ==
  IF line # <<>> /\ Head(line) = "#" THEN 1 + HashCount(Tail(line)) ELSE 0

MaxHeaderLevel == 6

\* line.match(/^(#{1,6})\s+(.+)$/)
IsHeader(line) ==
  LET h == HashCount(line)
  IN /\ h \in 1..MaxHeaderLevel
     /\ Len(line) >= h + 2
     /\ IsWhitespace(line[h + 1])

\* headerMatch[2]: what follows the whitespace, which gives back its last
\* character when nothing follows
HeaderTitle(line) ==
  LET w == WhitespaceRunEnd(line, HashCount(line))
  IN IF w < Len(line) THEN SubSeq(line, w + 1, Len(line)) ELSE <<line[Len(line)]>>

Introduction == [title |-> <<"Introduction">>, content |-> <<>>]

\* lines 95-118
RECURSIVE HeaderLoop(_, _, _)
HeaderLoop(lines, currentSection, sections) ==
  IF lines = <<>> THEN [sections |-> sections, currentSection |-> currentSection]
  ELSE LET line == Head(lines)
       IN IF IsHeader(line)
            THEN HeaderLoop(Tail(lines),
                            [title |-> HeaderTitle(line), content |-> line \o <<"\n">>],
                            IF IsNotBlank(currentSection.content)
                              THEN Append(sections, currentSection)
                              ELSE sections)
            ELSE HeaderLoop(Tail(lines),
                            [currentSection EXCEPT !.content = @ \o line \o <<"\n">>],
                            sections)

\* lines 74-127
splitAtHeaders(content) ==
  LET done == HeaderLoop(SplitLines(content), Introduction, <<>>)
  IN IF IsNotBlank(done.currentSection.content)
       THEN Append(done.sections, done.currentSection)
       ELSE done.sections

\* lines 25-52
RECURSIVE SectionLoop(_, _, _)
SectionLoop(sections, chunks, config) ==
  IF sections = <<>> THEN chunks
  ELSE LET section == Head(sections)
           subChunks == splitLargeSection(section.content, section.title, config)
       IN IF estimateTokens(section.content) <= config.chunkSize
            THEN SectionLoop(Tail(sections),
                             Append(chunks,
                                    Chunk(section.content, Len(chunks),
                                          estimateTokens(section.content), section.title)),
                             config)
            ELSE SectionLoop(Tail(sections),
                             chunks \o
                               [idx \in DOMAIN subChunks |->
                                  [subChunks[idx] EXCEPT !.index = Len(chunks) + idx - 1,
                                                         !.section = section.title]],
                             config)

Chunks(chunks) == [raised |-> FALSE, chunks |-> chunks]
ChunkerRaised == [raised |-> TRUE, chunks |-> <<>>]

\* lines 20-55
processMarkdown(content, config) ==
  Chunks(SectionLoop(splitAtHeaders(content), <<>>, config))

\* lines 70-72
processText(content, config) == Chunks(chunkText(content, "text", config))

IsDigits(s) == s # <<>> /\ \A i \in DOMAIN s : s[i] = "1"

\* the JSON texts among the contents: a number between optional whitespace
JsonContentParses(content) ==
  LET t == Strip(content)
  IN \/ IsDigits(t)
     \/ \E d \in DOMAIN t :
          /\ t[d] = "."
          /\ IsDigits(SubSeq(t, 1, d - 1))
          /\ IsDigits(SubSeq(t, d + 1, Len(t)))

\* jsonToNaturalLanguage(flattenJSON(data)) of a number: no key, no description
NumberInNaturalLanguage == <<>>

\* lines 57-68, had the catch been left out
processJSON_NoCatch(content, config) ==
  IF JsonContentParses(content)
    THEN Chunks(chunkText(NumberInNaturalLanguage, "json", config))
    ELSE ChunkerRaised

\* lines 57-68
processJSON(content, config) ==
  IF JsonContentParses(content)
    THEN Chunks(chunkText(NumberInNaturalLanguage, "json", config))
    ELSE Chunks(chunkText(content, "json", config))

\* contents are built of a word, a sentence end, a line break, a header mark
\* and a digit
ChunkPieces == {<<"a", "a", "a">>, <<".", " ">>, <<"\n">>, <<"#", " ">>, <<"1">>}
MaxPieces == 5

RECURSIVE Concat(_)
Concat(parts) == IF parts = <<>> THEN <<>> ELSE Head(parts) \o Concat(Tail(parts))

ChunkContents == {Concat(parts) : parts \in SeqsUpTo(ChunkPieces, MaxPieces)}

\* chunk size in tokens; chunkOverlap \div 100 sentences carried over
ChunkConfigs == [chunkSize : {1, 2}, chunkOverlap : {0, 200}]

ChunkInputs == [content : ChunkContents, config : ChunkConfigs]

ApplyProcessMarkdown == Apply("processMarkdown", processMarkdown(arg.content, arg.config))
ApplyProcessJSON == Apply("processJSON", processJSON(arg.content, arg.config))
ApplyProcessText == Apply("processText", processText(arg.content, arg.config))

ChunkNext ==
  \/ ApplyProcessMarkdown
  \/ ApplyProcessJSON
  \/ ApplyProcessText

SpecChunk == FunctionInit(ChunkInputs) /\ [][ChunkNext]_vars

ChunkerOps == {"processMarkdown", "processJSON", "processText"}

\* the largest estimate of one sentence of the content with its separator
LongestSentenceTokens(content) ==
  Max({0} \cup {estimateTokens(s \o <<" ">>) : s \in Range(splitIntoSentences(content))})

\* C15: no chunk returned by processMarkdown, processJSON or processText
\* exceeds the chunk size budget (estimated tokens, 4 characters per token) by
\* more than one sentence of the input, chunks starting with overlap included.
C15_ChunkWithinBudget ==
  (op \in ChunkerOps /\ ~ret.raised) =>
    \A i \in DOMAIN ret.chunks :
      estimateTokens(ret.chunks[i].content) <=
        arg.config.chunkSize + LongestSentenceTokens(arg.content)

\* the length of the longest end of `before` that `after` starts with
OverlapLength(before, after) ==
  Max({k \in 0..Min({Len(before), Len(after)}) :
         SubSeq(before, Len(before) - k + 1, Len(before)) = SubSeq(after, 1, k)})

\* the chunk contents in index order, each without what it repeats of its predecessor
WithoutOverlap(chunks) ==
  [i \in DOMAIN chunks |->
     IF i = 1 THEN chunks[i].content
     ELSE SubSeq(chunks[i].content,
                 OverlapLength(chunks[i - 1].content, chunks[i].content) + 1,
                 Len(chunks[i].content))]

\* runs of whitespace count as one space, whitespace at the ends does not count
RECURSIVE SingleSpaced(_)
SingleSpaced(s) ==
  IF s = <<>> THEN <<>>
  ELSE IF IsWhitespace(Head(s))
    THEN <<" ">> \o SingleSpaced(StripLeft(s))
    ELSE <<Head(s)>> \o SingleSpaced(Tail(s))

Normalized(s) == SingleSpaced(Strip(s))

\* the sentences of a text, each with the terminators that end it
RECURSIVE SentencesWithEnds(_)
SentencesWithEnds(s) ==
  IF SeparatorStarts(s) = {} THEN IF IsNotBlank(s) THEN <<Normalized(s)>> ELSE <<>>
  ELSE LET p == Min(SeparatorStarts(s))
           e == TerminatorRunEnd(s, p)
           rest == SentencesWithEnds(SubSeq(s, WhitespaceRunEnd(s, e) + 1, Len(s)))
       IN IF IsNotBlank(SubSeq(s, 1, p - 1))
            THEN <<Normalized(SubSeq(s, 1, e))>> \o rest
            ELSE rest

Reassembled(chunks) == Join(WithoutOverlap(chunks), <<" ">>)

\* C16: the contents of the chunks, in index order and without the overlap each
\* carries over from its predecessor, reproduce the content that was chunked:
\* the same sentences in the same order, each ended as it was in the input.
C16_ReassemblyReproducesContent ==
  (/\ op \in ChunkerOps
   /\ ~ret.raised
   /\ ~(op = "processJSON" /\ JsonContentParses(arg.content))) =>
    SentencesWithEnds(Reassembled(ret.chunks)) = SentencesWithEnds(arg.content)

----------------------------------------------------------------------------
(* The engine call of a generateKG run.                                    *)

\* C18: a generateKG run calls llmService.complete at most once; when that call
\* rejects or resolves with empty text the run has returned a failure, with no
\* second call.
C18_SingleEngineCall ==
  /\ calls <= 1
  /\ (engine = "rejected" \/ (engine = "resolved" /\ ResponseEmpty(response))) =>
       /\ calls = 1
       /\ result.returned
       /\ ~result.success
       /\ result.data = NullData

\* the one call rejected and the run returned its failure
C18_Witness ==
  /\ engine = "rejected"
  /\ calls = 1
  /\ result.returned
  /\ ~result.success

----------------------------------------------------------------------------
(* Requests handled side by side by the handlers createServer creates.     *)

\* handleGenerate, seen from the engine: the run reached llmService.complete
GenerateRunStart(r) ==
  /\ reqs[r].pc = "idle"
  /\ engines["kg"] = "ready"
  /\ reqs' = [reqs EXCEPT ![r] =
                [kind |-> "generate", pc |-> "awaiting", calls |-> 1, out |-> <<>>]]
  /\ inflight' = CallStarted("kg")
  /\ UNCHANGED <<engines, pipelineVars, functionVars, dashboardVars, storageVars>>

\* llmService.complete of the run settled; the run goes on to its terminal event
GenerateRunSettles(r, resolved) ==
  /\ reqs[r].kind = "generate"
  /\ reqs[r].pc = "awaiting"
  /\ reqs' = [reqs EXCEPT ![r].pc = "responded", ![r].out = [resolved |-> resolved]]
  /\ inflight' = CallSettled("kg")
  /\ UNCHANGED <<engines, pipelineVars, functionVars, dashboardVars, storageVars>>

\* handleAnalyze with a custom task, lines 148-158: llmService.complete of the
\* LLMService of createLLMHandlers
AnalyzeCustomStart(r) ==
  /\ reqs[r].pc = "idle"
  /\ engines["llm"] = "ready"
  /\ reqs' = [reqs EXCEPT ![r] =
                [kind |-> "analyze", pc |-> "awaiting", calls |-> 1, out |-> <<>>]]
  /\ inflight' = CallStarted("llm")
  /\ UNCHANGED <<engines, pipelineVars, functionVars, dashboardVars, storageVars>>

\* lines 159-178: a result or an error chunk, then the stream is closed
AnalyzeCustomSettles(r, resolved) ==
  /\ reqs[r].kind = "analyze"
  /\ reqs[r].pc = "awaiting"
  /\ reqs' = [reqs EXCEPT ![r].pc = "responded", ![r].out = [resolved |-> resolved]]
  /\ inflight' = CallSettled("llm")
  /\ UNCHANGED <<engines, pipelineVars, functionVars, dashboardVars, storageVars>>

\* one accepted and one refused response to the compilation prompt
ServerCypherResponses == {<<"MATCH">>, <<"prose">>}

ServerCypherGraph == ConvertParsed(Doc(Arr(<<EntityA>>), Arr(<<>>)), NoDraws)

ServerNext ==
  \/ \E g \in HandlerGroups : EngineInitializeResolves(g)
  \/ \E g \in HandlerGroups : EngineInitializeRejects(g)
  \/ \E r \in Requests : GenerateRunStart(r)
  \/ \E r \in Requests : \E resolved \in BOOLEAN : GenerateRunSettles(r, resolved)
  \/ \E r \in Requests : AnalyzeCustomStart(r)
  \/ \E r \in Requests : \E resolved \in BOOLEAN : AnalyzeCustomSettles(r, resolved)
  \/ \E r \in Requests : ToCypherUnavailable(r)
  \/ \E r \in Requests : ToCypherStart(r, ServerCypherGraph)
  \/ \E r \in Requests : \E text \in ServerCypherResponses : ToCypherCompleteResolves(r, text)
  \/ \E r \in Requests : ToCypherCompleteRejects(r)
  \/ \E r \in Requests : \E status \in {200, 500} : ToCypherUpdateKGSettles(r, status)

SpecServer == Init /\ [][ServerNext]_vars

\* C19: at most one complete() call is in flight on the backend of an
\* LLMService at any time, also while two requests that use it are handled.
C19_OneCallInFlight == \A g \in HandlerGroups : inflight[g] <= 1

\* C20: the engine instances initialized (and never disposed) in the server
\* process never number more than one.
C20_OneEngineInstance == Cardinality({g \in HandlerGroups : engines[g] = "ready"}) <= 1

----------------------------------------------------------------------------
(* dispose of LLMService and of LlamaCppBackend.                           *)

\* the fields of LlamaCppBackend, in the order dispose() releases them
BackendResources == <<"session", "context", "model", "llama">>

MaxDisposeCalls == 2

\* the number of resources initialize() can have loaded before it settled:
\* llama, model, context, session in that order (lines 13-45)
LoadedCounts == 0..Len(BackendResources)

\* an LLMService and its backend after initialize() loaded `loaded` resources,
\* with the number of times each underlying resource was disposed
ServiceObject(loaded) ==
  [held |-> [r \in Range(BackendResources) |->
               \E i \in 1..Len(BackendResources) :
                 BackendResources[i] = r /\ i > Len(BackendResources) - loaded],
   backend |-> TRUE,
   isInitialized |-> (loaded = Len(BackendResources)),
   disposals |-> [r \in Range(BackendResources) |-> 0],
   awaiting |-> 0, done |-> 0, first |-> <<>>]

\* lines 83-85
isAvailable(o) == \A r \in Range(BackendResources) : o.held[r]

\* LlamaCppBackend.complete line 48 and LLMService.complete line 306
CompleteIsRejected(o, target) ==
  IF target = "backend" THEN ~o.held["session"]
  ELSE ~o.isInitialized \/ ~o.backend

\* lines 89-107 from the i-th resource on: a resource that is held is disposed
\* and then forgotten; when its dispose() throws, the catch at line 110 ends
\* the call with this resource and the later ones still held
RECURSIVE ReleaseFrom(_, _, _)
ReleaseFrom(o, i, thrower) ==
  IF i > Len(BackendResources) THEN o
  ELSE LET r == BackendResources[i]
       IN IF ~o.held[r] THEN ReleaseFrom(o, i + 1, thrower)
          ELSE LET disposed == [o EXCEPT !.disposals[r] = @ + 1]
               IN IF thrower = r THEN disposed
                  ELSE ReleaseFrom([disposed EXCEPT !.held[r] = FALSE], i + 1, thrower)

\* LlamaCppBackend.dispose, lines 87-113
BackendDisposeBody(o, thrower) == ReleaseFrom(o, 1, thrower)

\* what a finished dispose() call leaves for later comparison
Settled(o) ==
  LET counted == [o EXCEPT !.done = @ + 1]
  IN IF o.done = 0
       THEN [counted EXCEPT !.first = [held |-> o.held, backend |-> o.backend,
                                       isInitialized |-> o.isInitialized]]
       ELSE counted

Throwers == Range(BackendResources) \cup {"none"}

DisposeInputs == [target : {"service", "backend"}, loaded : LoadedCounts]

\* the object under test is constructed and initialize() has settled
ConstructService ==
  /\ op = "none"
  /\ op' = "constructed"
  /\ ret' = ServiceObject(arg.loaded)
  /\ UNCHANGED <<arg, pipelineVars, serverVars, dashboardVars, storageVars>>

\* backend.dispose() called on the backend itself
BackendDispose(thrower) ==
  /\ op # "none"
  /\ arg.target = "backend"
  /\ ret.done < MaxDisposeCalls
  /\ op' = "dispose"
  /\ ret' = Settled(BackendDisposeBody(ret, thrower))
  /\ UNCHANGED <<arg, pipelineVars, serverVars, dashboardVars, storageVars>>

\* LLMService.dispose up to its await, lines 313-315
ServiceDisposeStart(thrower) ==
  /\ op # "none"
  /\ arg.target = "service"
  /\ ret.done + ret.awaiting < MaxDisposeCalls
  /\ op' = "dispose"
  /\ ret' = IF ret.backend
              THEN [BackendDisposeBody(ret, thrower) EXCEPT !.awaiting = @ + 1]
              ELSE Settled([ret EXCEPT !.isInitialized = FALSE])
  /\ UNCHANGED <<arg, pipelineVars, serverVars, dashboardVars, storageVars>>

\* LLMService.dispose after its await, lines 316-319
ServiceDisposeFinish ==
  /\ op # "none"
  /\ arg.target = "service"
  /\ ret.awaiting > 0
  /\ op' = "dispose"
  /\ ret' = Settled([ret EXCEPT !.awaiting = @ - 1, !.backend = FALSE,
                                !.isInitialized = FALSE])
  /\ UNCHANGED <<arg, pipelineVars, serverVars, dashboardVars, storageVars>>

DisposeNext ==
  \/ ConstructService
  \/ \E thrower \in Throwers : BackendDispose(thrower)
  \/ \E thrower \in Throwers : ServiceDisposeStart(thrower)
  \/ ServiceDisposeFinish

SpecDispose == FunctionInit(DisposeInputs) /\ [][DisposeNext]_vars

\* C21: once a dispose() call has finished, the object is not initialized, not
\* available and rejects complete(); no underlying resource was
\* disposed more than once; and a further call leaves the state the first left.
C21_DisposeIdempotent ==
  (op = "dispose" /\ ret.done >= 1 /\ ret.awaiting = 0) =>
    /\ ~isAvailable(ret)
    /\ CompleteIsRejected(ret, arg.target)
    /\ \A r \in Range(BackendResources) : ret.disposals[r] <= 1
    /\ ret.first = [held |-> ret.held, backend |-> ret.backend,
                    isInitialized |-> ret.isInitialized]

----------------------------------------------------------------------------
\* C22: generateMermaidCode leaves the graph it is given unchanged: after the
\* call the graph's entities are the same entities in the same order as before.
C22_InputUnchanged ==
  op = "generateMermaidCode" => ret.entities = arg.kgData.entities

----------------------------------------------------------------------------
(* Edge styles of generateMermaidCode over graphs of the declared type.     *)

\* weights a KGRelationship may carry (weight: number, 0 to 1), in tenths
ArrowWeights == {Num(0), Num(3), Num(5), Num(7), Num(8), Num(10)}

TypedRelationship(source, target, weight) ==
  [ConvertRelationship(RawRelationship(Str(<<"r">>), source, target, TypeT, Undefined), <<>>)
     EXCEPT !.weight = weight]

ArrowRels ==
  {TypedRelationship(st[1], st[2], w) : st \in {<<IdA, IdB>>, <<IdB, IdA>>}, w \in ArrowWeights}

ArrowGraphs ==
  {[ConvertParsed(Doc(Arr(<<EntityA, EntityB>>), Arr(<<>>)), NoDraws)
      EXCEPT !.relationships = rs] : rs \in SeqsUpTo(ArrowRels, MaxRels)}

ArrowInputs == [kgData : ArrowGraphs, config : [maxNodes : {DefaultMaxNodes}, maxEdges : {1, DefaultMaxEdges}]]

SpecArrow == FunctionInit(ArrowInputs) /\ [][ApplyGenerateMermaidCode]_vars

\* the style the weight alone determines: strong from 0.8, medium from 0.5, weak below
StyleOfWeight(weight) ==
  IF weight.num >= 8 THEN "===>" ELSE IF weight.num >= 5 THEN "-->" ELSE "-.->"

\* C23: every rendered edge has the style its relationship's weight determines:
\* '===>' iff weight >= 0.8, '-->' iff 0.5 <= weight < 0.8, '-.->' otherwise,
\* weight 0 included.
C23_StyleByWeightAlone ==
  (op = "generateMermaidCode" /\ ~ret.raised /\ ret.diagram.path = "main") =>
    LET rels == LimitedRelationships(arg.kgData, arg.config)
    IN \A i \in DOMAIN ret.diagram.edges :
         ret.diagram.edges[i].arrow = StyleOfWeight(rels[i].weight)

----------------------------------------------------------------------------
\* C24: for each task type the value parseAnalysisResponse returns has that
\* task's top-level fields; a decoded object lacking them is replaced by the
\* typed fallback.
C24_ResultHasTaskFields ==
  (op = "parseAnalysisResponse" /\ arg.taskType \in TaskTypes /\ ~ret.raised) =>
    FallbackFields(arg.taskType) \subseteq ret.keys

----------------------------------------------------------------------------
(* The dashboard KG modal (dashboard/components/kgModal).                   *)

\* show/hide resets followed (each starts a new modal session)
MaxSessions == 3

\* what the body of a 200 response of /api/kg/generate delivers: progress
\* events, then one terminal event, then the end of the stream
GenerateStreams ==
  {<<"progress", "result">>, <<"progress", "error">>, <<"result">>, <<"error">>}

\* the state object show and hide install, lines 96-102 and 131-137
FreshState(visible) ==
  [currentStage |-> "input", kgData |-> 0, kgId |-> 0,
   session |-> kgState.session + 1, visible |-> visible]

\* showKGModal, lines 83-122 (the generate button behind it is covered while
\* the modal is shown)
ShowKGModal ==
  /\ ~kgState.visible
  /\ kgState.session < MaxSessions
  /\ kgState' = FreshState(TRUE)
  /\ UNCHANGED <<generations, pipelineVars, serverVars, functionVars, storageVars>>

\* hideKGModal, lines 124-141
HideKGModal ==
  /\ kgState.visible
  /\ kgState.session < MaxSessions
  /\ kgState' = FreshState(FALSE)
  /\ UNCHANGED <<generations, pipelineVars, serverVars, functionVars, storageVars>>

\* startKGGeneration up to the await of fetch, lines 178-207; its button is
\* shown in the input section only
StartKGGeneration(g) ==
  /\ kgState.visible
  /\ kgState.currentStage = "input"
  /\ generations[g].pc = "idle"
  /\ \A h \in Generations : h < g => generations[h].pc # "idle"
  /\ kgState' = [kgState EXCEPT !.currentStage = "generating"]
  /\ generations' = [generations EXCEPT ![g] =
                       [pc |-> "fetch", session |-> kgState.session, stream |-> <<>>]]
  /\ UNCHANGED <<pipelineVars, serverVars, functionVars, storageVars>>

\* the outer catch, lines 248-253
StartKGGenerationCatch(g) ==
  /\ kgState' = [kgState EXCEPT !.currentStage = "input"]
  /\ generations' = [generations EXCEPT ![g].pc = "returned", ![g].stream = <<>>]

\* fetch settles, lines 197-217: a rejected fetch, a response that is not ok
\* or one without a body goes to the outer catch
FetchSettles(g, outcome, stream) ==
  /\ generations[g].pc = "fetch"
  /\ IF outcome = "ok"
       THEN /\ generations' = [generations EXCEPT ![g].pc = "read", ![g].stream = stream]
            /\ UNCHANGED kgState
       ELSE StartKGGenerationCatch(g)
  /\ UNCHANGED <<pipelineVars, serverVars, functionVars, storageVars>>

\* handleKGResult, lines 256-265, for the result of generation g
handleKGResult(g) ==
  [kgState EXCEPT !.kgData = g, !.kgId = g, !.currentStage = "preview"]

\* one 'data: ' line of the stream, lines 230-245: a result is applied and ends
\* the call; the Error thrown for an 'error' event is caught by the catch
\* around the line (line 242), which logs it, and the loop goes on
ReadEvent(g) ==
  /\ generations[g].pc = "read"
  /\ generations[g].stream # <<>>
  /\ LET event == Head(generations[g].stream)
     IN IF event = "result"
          THEN /\ kgState' = handleKGResult(g)
               /\ generations' = [generations EXCEPT ![g].pc = "returned",
                                                     ![g].stream = <<>>]
          ELSE /\ UNCHANGED kgState
               /\ generations' = [generations EXCEPT ![g].stream = Tail(@)]
  /\ UNCHANGED <<pipelineVars, serverVars, functionVars, storageVars>>

\* reader.read() reports done, line 222: the loop and the call end
ReadDone(g) ==
  /\ generations[g].pc = "read"
  /\ generations[g].stream = <<>>
  /\ generations' = [generations EXCEPT ![g].pc = "returned"]
  /\ UNCHANGED <<kgState, pipelineVars, serverVars, functionVars, storageVars>>

\* reader.read() rejects (the connection broke): the outer catch
ReadRejects(g) ==
  /\ generations[g].pc = "read"
  /\ StartKGGenerationCatch(g)
  /\ UNCHANGED <<pipelineVars, serverVars, functionVars, storageVars>>

\* discardKG, lines 338-341; its button is in the preview section
DiscardKG ==
  /\ kgState.visible
  /\ kgState.currentStage = "preview"
  /\ kgState' = [kgState EXCEPT !.currentStage = "input"]
  /\ UNCHANGED <<generations, pipelineVars, serverVars, functionVars, storageVars>>

DashboardNext ==
  \/ ShowKGModal
  \/ HideKGModal
  \/ \E g \in Generations : StartKGGeneration(g)
  \/ \E g \in Generations, outcome \in {"ok", "notOk", "rejected"}, stream \in GenerateStreams :
       FetchSettles(g, outcome, stream)
  \/ \E g \in Generations : ReadEvent(g)
  \/ \E g \in Generations : ReadDone(g)
  \/ \E g \in Generations : ReadRejects(g)
  \/ DiscardKG

SpecDashboard == Init /\ [][DashboardNext]_vars

\* no startKGGeneration call is between its start and its return
NoGenerationRunning ==
  \A g \in Generations : generations[g].pc \in {"idle", "returned"}

\* C25: once the generation stream has ended and startKGGeneration has
\* returned, the modal is not in the 'generating' stage; in particular an
\* 'error' event has brought it back to 'input'.
C25_NotLeftGenerating ==
  NoGenerationRunning => kgState.currentStage # "generating"

\* C26: the graph the modal holds is the result of a generation started in the
\* current modal session; a result of an earlier session is never applied.
C26_NoStaleResult ==
  kgState.kgData # 0 => generations[kgState.kgData].session = kgState.session

----------------------------------------------------------------------------
(* Node identifiers of generateMermaidCode.                                 *)

\* entity ids as an engine writes them: words joined by a hyphen, an
\* underscore, a blank, or nothing
NodeIdStrings ==
  {Str(<<"a", "-", "b">>), Str(<<"a", "_", "b">>), Str(<<"a", " ", "b">>), Str(<<"a", "b">>)}

NodeIdEntities ==
  {RawEntity(id, LabelL, Undefined, importance) :
     id \in NodeIdStrings, importance \in {Num(3), Num(9)}}

NodeIdGraphs ==
  {ConvertParsed(Doc(Arr(es), Arr(<<>>)), NoDraws) : es \in SeqsUpTo(NodeIdEntities, MaxEntities)}

NodeIdInputs == [kgData : NodeIdGraphs, config : MermaidConfigs]

SpecNodeIds == FunctionInit(NodeIdInputs) /\ [][ApplyGenerateMermaidCode]_vars

\* C27: rendered entities with distinct ids are drawn as distinct nodes: their
\* node identifiers differ after sanitizeId.
C27_DistinctNodeIds ==
  (op = "generateMermaidCode" /\ ~ret.raised /\ ret.diagram.path = "main") =>
    LET ents == LimitedEntities(arg.kgData, arg.config)
    IN \A i, j \in DOMAIN ret.diagram.nodes :
         ents[i].id # ents[j].id => ret.diagram.nodes[i].id # ret.diagram.nodes[j].id

----------------------------------------------------------------------------
(* sanitizeRelationshipType on its own.                                     *)

MaxTypeLen == 3

TypeAtoms == {"a", "T", "7", "-", "_", " "}

RelationshipTypeInputs == {Str(s) : s \in SeqsUpTo(TypeAtoms, MaxTypeLen)}

ApplySanitizeRelationshipType ==
  Apply("sanitizeRelationshipType", sanitizeRelationshipType(arg))

SpecRelType == FunctionInit(RelationshipTypeInputs) /\ [][ApplySanitizeRelationshipType]_vars

\* uppercase letters, digits and the underscore, as they occur in these inputs
RelTypeTokenAtoms == {"A", "T", "7", "_", "RELATED_TO"}

\* a non-empty token of uppercase letters, digits and single underscores that
\* neither starts nor ends with an underscore
IsRelTypeToken(s) ==
  /\ s # <<>>
  /\ Range(s) \subseteq RelTypeTokenAtoms
  /\ s[1] # "_"
  /\ s[Len(s)] # "_"
  /\ \A i \in 1..(Len(s) - 1) : ~(s[i] = "_" /\ s[i + 1] = "_")

\* C28: for every input string sanitizeRelationshipType returns a non-empty
\* token of uppercase letters, digits and single underscores without a leading
\* or trailing underscore, and applying it to its own output returns the output.
C28_RelTypeToken ==
  op = "sanitizeRelationshipType" =>
    /\ IsRelTypeToken(ret)
    /\ sanitizeRelationshipType(Str(ret)) = ret

----------------------------------------------------------------------------
(* validateCypherSyntax on the script of generateFallbackCypher.            *)

\* the number of atoms c in the string s
Occurrences(s, c) == Cardinality({i \in DOMAIN s : s[i] = c})

RECURSIVE SumOver(_)
SumOver(counts) ==
  IF counts = <<>> THEN 0 ELSE Head(counts) + SumOver(Tail(counts))

\* occurrences of c in the values the script interpolates, lines 116-158
InterpolatedOccurrences(script, c) ==
  SumOver([i \in DOMAIN script.constraints |-> Occurrences(script.constraints[i], c)])
  + SumOver([i \in DOMAIN script.nodes |->
               Occurrences(script.nodes[i].labelName, c) + Occurrences(script.nodes[i].id, c)
               + Occurrences(script.nodes[i].label, c)
               + Occurrences(script.nodes[i].description, c)])
  + SumOver([i \in DOMAIN script.relationships |->
               Occurrences(script.relationships[i].source, c)
               + Occurrences(script.relationships[i].target, c)
               + Occurrences(script.relationships[i].type, c)
               + Occurrences(script.relationships[i].description, c)])
  + SumOver([i \in DOMAIN script.indexes |-> Occurrences(script.indexes[i], c)])

\* parentheses of the statement templates: one pair per constraint (line 116)
\* and per node (line 129), four per relationship (lines 146-147), two per
\* index (line 158)
TemplateParens(script) ==
  Len(script.constraints) + Len(script.nodes) + 4 * Len(script.relationships)
  + 2 * Len(script.indexes)

\* braces of the statement templates: one pair per node, two per relationship
TemplateBraces(script) == Len(script.nodes) + 2 * Len(script.relationships)

\* the comment lines of the script, lines 107-108, 113, 121, 138, 155
ScriptComments(script) ==
  <<"// Generated Cypher code for Knowledge Graph", "// Created by Scrapient KG Service",
    "// Create constraints for entity types", "// Create entity nodes">>
  \o (IF script.relationships # <<>> THEN <<"// Create relationships">> ELSE <<>>)
  \o <<"// Create indexes for better performance">>

\* /\b(CREATE|MERGE|MATCH|SET|WHERE|RETURN)\b/i on a comment line: "Create" is
\* such a word, "Created" is not
CommentHasKeyword(line) ==
  line \in {"// Create constraints for entity types", "// Create entity nodes",
            "// Create relationships", "// Create indexes for better performance"}

\* validateCypherSyntax, lines 185-220, on a script of generateFallbackCypher
validateCypherSyntax(script) ==
  IF ScriptComments(script) = <<>>
       /\ script.constraints = <<>> /\ script.nodes = <<>>
    THEN [valid |-> FALSE, error |-> "Empty Cypher code"]
  ELSE IF ~(\/ \E i \in DOMAIN ScriptComments(script) : CommentHasKeyword(ScriptComments(script)[i])
            \/ script.constraints # <<>> \/ script.nodes # <<>>)
    THEN [valid |-> FALSE, error |-> "No valid Cypher keywords found"]
  ELSE IF TemplateParens(script) + InterpolatedOccurrences(script, "(")
            # TemplateParens(script) + InterpolatedOccurrences(script, ")")
    THEN [valid |-> FALSE, error |-> "Unbalanced parentheses in Cypher code"]
  ELSE IF TemplateBraces(script) + InterpolatedOccurrences(script, "{")
            # TemplateBraces(script) + InterpolatedOccurrences(script, "}")
    THEN [valid |-> FALSE, error |-> "Unbalanced braces in Cypher code"]
  ELSE [valid |-> TRUE, error |-> "none"]

\* entities and relationships whose texts hold quotes, parentheses and braces
WithDescription(x, description) == [x EXCEPT !.description = description]

SyntaxEntities ==
  {WithDescription(RawEntity(id, label, Undefined, Num(9)), description) :
     id \in {IdA, Str(<<"a", "(">>)},
     label \in {LabelL, Str(<<"(", "L", ")">>), Str(<<"{">>)},
     description \in {Undefined, Str(<<"}">>), Str(<<"'">>)}}

SyntaxRels ==
  {<<>>} \cup {<<WithDescription(RelAB, description)>> : description \in {Undefined, Str(<<")">>)}}

SyntaxGraphs ==
  {ConvertParsed(Doc(Arr(es), Arr(rs)), NoDraws) :
     es \in SeqsUpTo(SyntaxEntities, MaxEntities), rs \in SyntaxRels}

SyntaxInputs == [kgData : SyntaxGraphs]

SpecCypherSyntax == FunctionInit(SyntaxInputs) /\ [][ApplyGenerateFallbackCypher]_vars

\* C29: whatever characters ids, labels and descriptions contain, the script of
\* the deterministic Cypher path passes validateCypherSyntax.
C29_FallbackScriptValid ==
  (op = "generateFallbackCypher" /\ ~ret.raised) => validateCypherSyntax(ret).valid

----------------------------------------------------------------------------
(* The stored knowledge graphs: storage.saveKG and storage.updateKG as the  *)
(* handlers of /api/kg/generate, /api/kg/to-cypher and /api/kg/save call    *)
(* them.                                                                    *)

MaxStored == 2
MaxUpdates == 3

UserPrompts == {<<"p1">>, <<"p2">>}
ProcessingTimes == {0, 1}
CypherScripts == {<<"MATCH">>, <<"MERGE">>}

\* the document handleGenerate passes to saveKG, part_009 lines 626-641
GeneratedKG(userPrompt, rawData, processingTime) ==
  [rawData |-> rawData,
   mermaidCode |-> generateMermaidCode(rawData, DefaultMermaidConfig).diagram,
   neo4jStatus |-> "pending",
   updatedAt |-> 0,
   metadata |-> [userPrompt |-> userPrompt, model |-> "llama-3.1-8b",
                 processingTime |-> processingTime, stage |-> "preview"]]

\* updateOne({id}, {$set: updates}): each top-level field named in `updates`
\* is replaced by the value given, the others stay; no document, no change
updateKG(id, updates) ==
  IF id \notin DOMAIN kgCollection THEN kgCollection
  ELSE [kgCollection EXCEPT ![id] =
          [k \in DOMAIN @ \cup DOMAIN updates |->
             IF k \in DOMAIN updates THEN updates[k] ELSE @[k]]]

\* new Date() of an update, as a count of the writes to the document
Now(id) == IF id \in DOMAIN kgCollection THEN kgCollection[id].updatedAt + 1 ELSE 1

Writable(id) == id \in DOMAIN kgCollection => kgCollection[id].updatedAt < MaxUpdates

\* handleGenerate after a successful generateKG: saveKG, part_009 lines 623-642
StoreGeneratedKG(userPrompt, rawData, processingTime) ==
  /\ Len(kgCollection) < MaxStored
  /\ kgCollection' = Append(kgCollection, GeneratedKG(userPrompt, rawData, processingTime))
  /\ UNCHANGED <<pipelineVars, serverVars, functionVars, dashboardVars>>

\* handleToCypher after a successful generateCypherFromKG, part_009 lines 749-757
ToCypherUpdateKG(id, cypherCode) ==
  /\ Writable(id)
  /\ kgCollection' = updateKG(id, [cypherCode |-> cypherCode, updatedAt |-> Now(id),
                                   metadata |-> [stage |-> "cypher"]])
  /\ UNCHANGED <<pipelineVars, serverVars, functionVars, dashboardVars>>

\* handleSave, part_009 lines 801-836: 404 for an unknown id, 400 for a graph
\* without cypherCode, otherwise the graph is marked saved
SaveUpdateKG(id) ==
  /\ id \in DOMAIN kgCollection
  /\ "cypherCode" \in DOMAIN kgCollection[id]
  /\ Writable(id)
  /\ kgCollection' = updateKG(id, [neo4jStatus |-> "saved", updatedAt |-> Now(id),
                                   metadata |-> [stage |-> "complete"]])
  /\ UNCHANGED <<pipelineVars, serverVars, functionVars, dashboardVars>>

StorageNext ==
  \/ \E userPrompt \in UserPrompts, rawData \in CypherGraphs, processingTime \in ProcessingTimes :
       StoreGeneratedKG(userPrompt, rawData, processingTime)
  \/ \E id \in 1..(MaxStored + 1), cypherCode \in CypherScripts : ToCypherUpdateKG(id, cypherCode)
  \/ \E id \in 1..MaxStored : SaveUpdateKG(id)

SpecStorage == Init /\ [][StorageNext]_vars

GenerationFields == {"userPrompt", "model", "processingTime"}

\* the step leaves what generation wrote into document id as it was
KeepsGenerated(id) ==
  /\ kgCollection'[id].rawData = kgCollection[id].rawData
  /\ kgCollection'[id].mermaidCode = kgCollection[id].mermaidCode
  /\ \A f \in GenerationFields :
       /\ f \in DOMAIN kgCollection'[id].metadata
       /\ kgCollection'[id].metadata[f] = kgCollection[id].metadata[f]

\* every stored graph still carries the metadata written at generation
GeneratedMetadataKept ==
  \A id \in DOMAIN kgCollection : GenerationFields \subseteq DOMAIN kgCollection[id].metadata

\* C30: to-cypher and save requests leave rawData, mermaidCode and the
\* metadata fields userPrompt, model and processingTime of every stored graph
\* as generation wrote them.
C30_GeneratedFieldsKept ==
  [](GeneratedMetadataKept) /\ [][\A id \in DOMAIN kgCollection : KeepsGenerated(id)]_vars

====
